---- MODULE Spec2Model ----
(***************************************************************************)
(* Model of the Hyperliquid address monitor (src/bin/monitor.rs, the GUI   *)
(* build, and src/bin/monitor_headless.rs, the headless build).            *)
(*                                                                         *)
(* A monitor task (monitor_address) bootstraps from one fetch of the       *)
(* address' fills, then polls every 10 s, classifies the fetched fills     *)
(* against last_transaction_ids and start_time, sends one notification per *)
(* new fill to every send key and extends the shared transactions list.    *)
(*                                                                         *)
(* Strings that the code inspects (send keys, transaction ids, URLs) are   *)
(* sequences of one-character strings; a literal piece of a formatted URL  *)
(* is one element of the sequence.                                         *)
(***************************************************************************)
EXTENDS Integers, Sequences, FiniteSets, TLC

VARIABLES
    registered,            \* the monitors of the registry
    exchange,              \* the fills the exchange holds for each monitor's address
    sendkeys,              \* MonitorApp.sendkeys / Config.sendkeys
    pc,                    \* position of every monitor_address task
    monitor_type,          \* monitor_address parameter
    keys,                  \* monitor_address parameter sendkeys (a clone)
    start_time,            \* monitor_address local
    last_transaction_ids,  \* monitor_address local (HashSet<String>)
    pending,               \* fills of the bootstrap `for fill in fills` still to visit
    new_transactions,      \* monitor_address local of one poll tick
    txIdx,                 \* position of `for tx in &new_transactions`
    transactions,          \* the shared Arc<Mutex<Vec<Transaction>>>
    ticks,                 \* number of poll iterations started by all tasks (bounded)
    bootFills,             \* history: the set of fills the bootstrap fetch returned
    lastFetch,             \* history: the fills the poll fetch of this tick returned, or "err"
    notified,              \* history: every sc_send call of the task, in order
    fnIn,                  \* input of the notification functions checked alone
    fnOut,                 \* their result
    lock,                  \* the holders of the Mutex of transactions
    rows,                  \* the table rows the GUI has drawn in this frame, top row first
    addresses,             \* MonitorApp.addresses
    address                \* monitor_address parameter

\* The state of the GUI and of the Mutex.
guiVars == <<lock, rows, addresses, address>>

vars == <<registered, exchange, sendkeys, pc, monitor_type, keys, start_time,
          last_transaction_ids, pending, new_transactions, txIdx, transactions,
          ticks, bootFills, lastFetch, notified, fnIn, fnOut, guiVars>>

loopVars == <<registered, exchange, sendkeys, pc, monitor_type, keys, start_time,
              last_transaction_ids, pending, new_transactions, txIdx,
              transactions, ticks, bootFills, lastFetch, notified>>

-----------------------------------------------------------------------------
(* Bounds of the model.                                                    *)

MaxTicks == 2      \* poll iterations started, all tasks together
MaxFetch == 2      \* fills in one fetched snapshot
MaxKeys == 2       \* send keys in a key list
MaxSeg == 2        \* characters in a free segment of a generated key

Monitors == {"m1", "m2"}

NONE == "none"

\* Values of the fetch histories: no fetch yet, a failed fetch, a fetch that
\* returned the fills S, and a poll fetch that returned the sequence q of
\* fills to a task whose last_transaction_ids was seen.
NoFetch == [st |-> "none", fills |-> {}, seq |-> <<>>, seen |-> {}]
ErrFetch == [st |-> "err", fills |-> {}, seq |-> <<>>, seen |-> {}]
OkFetch(S) == [st |-> "ok", fills |-> S, seq |-> <<>>, seen |-> {}]
PollFetch(q, seen) ==
    [st |-> "ok", fills |-> { q[i] : i \in 1..Len(q) }, seq |-> q, seen |-> seen]

\* Values of fnIn and fnOut while no notification function is checked alone.
NoCall == [op |-> "none", keys |-> <<>>, nets |-> <<>>]
NoResult == [done |-> FALSE, calls |-> <<>>]

-----------------------------------------------------------------------------
(* Time.  Wall-clock milliseconds are counted from a shifted epoch so that *)
(* they fit TLC's 32-bit integers; only differences matter to the code.   *)

BackfillMs == 3600000

Base == BackfillMs + 10

Clock == {Base}

-----------------------------------------------------------------------------
(* Fills returned by InfoClient::user_fills.  Of the fields of a fill the  *)
(* monitor reads time, oid, coin and side (sz and px only feed the numeric *)
(* size and price of the record and take no part in any decision).         *)

Fill(t, o, s) == [time |-> t, oid |-> o, coin |-> "ETH", side |-> s]

FillOld == Fill(Base - BackfillMs - 1, 1, "B")
FillHourOld == Fill(Base - BackfillMs, 1, "B")
FillJustInside == Fill(Base - BackfillMs + 1, 1, "A")
FillAtStart == Fill(Base, 1, "A")
FillNew1 == Fill(Base + 1, 1, "B")
FillNew2 == Fill(Base + 1, 2, "A")
FillNew3 == Fill(Base + 2, 3, "B")

\* A run's surroundings: the monitors the registry (MonitorApp.addresses or
\* Config.monitors) holds, and the fills the exchange may report for the
\* address of each.
Setup(ms, f1, f2) ==
    [registered |-> ms, exchange |-> [m \in Monitors |-> IF m = "m1" THEN f1 ELSE f2]]

Setups ==
    { Setup({"m1"}, {FillHourOld, FillAtStart, FillNew1}, {}),
      Setup({"m1"}, {FillOld, FillJustInside}, {}),
      Setup({"m1"}, {FillNew1, FillNew3}, {}),
      Setup({"m1", "m2"}, {FillAtStart}, {FillNew2}) }

SeqRange(q) == { q[i] : i \in 1..Len(q) }

RECURSIVE SeqsUpTo(_, _)
SeqsUpTo(S, n) ==
    IF n = 0 THEN { <<>> }
    ELSE LET shorter == SeqsUpTo(S, n - 1)
         IN  shorter \cup { Append(q, x) : q \in shorter, x \in S }

\* What one call of user_fills may return on success: any sequence of fills
\* of the address, a fill possibly more than once.
Snapshots(m) == SeqsUpTo(exchange[m], MaxFetch)

-----------------------------------------------------------------------------
(* format!("{}-{}", fill.time, fill.oid): both are u64, printed in decimal *)

DigitChar(d) ==
    CASE d = 0 -> "0" [] d = 1 -> "1" [] d = 2 -> "2" [] d = 3 -> "3"
      [] d = 4 -> "4" [] d = 5 -> "5" [] d = 6 -> "6" [] d = 7 -> "7"
      [] d = 8 -> "8" [] d = 9 -> "9"

RECURSIVE Decimal(_)
Decimal(n) ==
    IF n < 10 THEN << DigitChar(n) >>
    ELSE Append(Decimal(n \div 10), DigitChar(n % 10))

TransactionId(fill) == Decimal(fill.time) \o <<"-">> \o Decimal(fill.oid)

\* The Transaction built from a fill.  gid, gby, gsrc and gtick are history
\* fields (the struct has no order id): the identifier of the fill the record
\* was built from, the task that built it, the loop that built it ("boot"
\* for the bootstrap loop, "poll" for the poll loop) and the number of poll
\* iterations started by then.
MakeTx(m, fill, src) ==
    [timestamp |-> fill.time, token |-> fill.coin, side |-> fill.side,
     leverage |-> 1, gid |-> TransactionId(fill), gby |-> m, gsrc |-> src,
     gtick |-> ticks]

-----------------------------------------------------------------------------
(* Send keys and sc_send.                                                  *)

Sctp == <<"s", "c", "t", "p">>

IsDigit(c) == c \in {"0", "1", "2", "3", "4", "5", "6", "7", "8", "9"}

\* key.starts_with("sctp")
StartsWithSctp(key) == Len(key) >= 4 /\ SubSeq(key, 1, 4) = Sctp

\* Last index of the run of digits that begins at index i (i - 1 if none).
RECURSIVE DigitRunEnd(_, _)
DigitRunEnd(key, i) ==
    IF i <= Len(key) /\ IsDigit(key[i]) THEN DigitRunEnd(key, i + 1) ELSE i - 1

\* sctp(\d+)t matches at index i: the literal, a greedy non-empty digit run,
\* then t (a shorter run cannot be followed by t, so greedy is the only try).
MatchesAt(key, i) ==
    /\ i + 3 <= Len(key)
    /\ SubSeq(key, i, i + 3) = Sctp
    /\ LET e == DigitRunEnd(key, i + 4)
       IN  e >= i + 4 /\ e + 1 <= Len(key) /\ key[e + 1] = "t"

\* Regex::new(r"sctp(\d+)t").captures(&key): the leftmost match anywhere in
\* the key, as [found, num]; num is capture group 1.
Captures(key) ==
    LET hits == { i \in 1..Len(key) : MatchesAt(key, i) }
    IN  IF hits = {} THEN [found |-> FALSE, num |-> <<>>]
        ELSE LET i == CHOOSE h \in hits : \A g \in hits : h <= g
             IN  [found |-> TRUE, num |-> SubSeq(key, i + 4, DigitRunEnd(key, i + 4))]

NetOutcomes == {"ok", "transport_error"}

ScSendNoFormatCheck(text, desp, key, net) ==
    [url |-> <<"https://sctapi.ftqq.com/">> \o key \o <<".send">>,
     posted |-> TRUE, result |-> net]

\* sc_send(text, desp, key), the POST ending as net says: the URL built,
\* whether the POST was issued, and Ok or the error returned.
ScSend(text, desp, key, net) ==
    IF StartsWithSctp(key)
    THEN LET c == Captures(key)
         IN  IF c.found
             THEN [url |-> <<"https://">> \o c.num \o <<".push.ft07.com/send/">>
                               \o key \o <<".send">>,
                   posted |-> TRUE, result |-> net]
             ELSE [url |-> <<>>, posted |-> FALSE, result |-> "format_error"]
    ELSE [url |-> <<"https://sctapi.ftqq.com/">> \o key \o <<".send">>,
          posted |-> TRUE, result |-> net]

RECURSIVE SendFrom(_, _, _, _, _)
SendFrom(text, desp, ks, nets, i) ==
    IF i > Len(ks) THEN <<>>
    ELSE LET rest == SendFrom(text, desp, ks, nets, i + 1)
         IN  IF ks[i] # <<>>
             THEN << [pos |-> i, key |-> ks[i], text |-> text]
                       @@ ScSend(text, desp, ks[i], nets[i]) >> \o rest
             ELSE rest

RECURSIVE SendFromStopOnError(_, _, _, _, _)
SendFromStopOnError(text, desp, ks, nets, i) ==
    IF i > Len(ks) THEN <<>>
    ELSE LET r == ScSend(text, desp, ks[i], nets[i])
         IN  IF ks[i] # <<>>
             THEN << [pos |-> i, key |-> ks[i], text |-> text] @@ r >>
                  \o (IF r.result = "ok"
                      THEN SendFromStopOnError(text, desp, ks, nets, i + 1)
                      ELSE <<>>)
             ELSE SendFromStopOnError(text, desp, ks, nets, i + 1)

SendToAllKeysStopOnError(text, desp, ks, nets) ==
    SendFromStopOnError(text, desp, ks, nets, 1)

\* send_to_all_keys(text, desp, keys): the sc_send calls made, in order; nets[i]
\* is how the POST for keys[i] ends if one is issued.
SendToAllKeys(text, desp, ks, nets) == SendFrom(text, desp, ks, nets, 1)

-----------------------------------------------------------------------------
(* The keys and key lists the monitor tasks run with.                      *)

KeyPlain == <<"X">>
KeyNoDigits == <<"s", "c", "t", "p", "X", "t">>

LoopKeys == {KeyPlain}

LoopKeyLists == SeqsUpTo(LoopKeys, MaxKeys)

-----------------------------------------------------------------------------
(* monitor_address: classification of a fetched snapshot.                  *)

InBackfillWrongSign(fill, start) == fill.time > start + BackfillMs

\* The bootstrap test for copying a fill into the transactions list.
InBackfill(fill, start) == fill.time > start - BackfillMs

IsNewIgnoringSeen(fill, seen, start) == fill.time > start

IsNewIgnoringStart(fill, seen, start) == TransactionId(fill) \notin seen

\* The poll test for a new fill.
IsNew(fill, seen, start) == TransactionId(fill) \notin seen /\ fill.time > start

RECURSIVE ClassifyFromNewestFirst(_, _, _, _, _, _)
ClassifyFromNewestFirst(m, fills, i, seen, start, acc) ==
    IF i > Len(fills) THEN [seen |-> seen, new |-> acc]
    ELSE IF IsNew(fills[i], seen, start)
         THEN ClassifyFromNewestFirst(m, fills, i + 1,
                                      seen \cup {TransactionId(fills[i])}, start,
                                      <<MakeTx(m, fills[i], "poll")>> \o acc)
         ELSE ClassifyFromNewestFirst(m, fills, i + 1, seen, start, acc)

\* The poll loop `for fill in fills` from position i on: the ids inserted
\* and the Transactions pushed, starting from seen and acc.
RECURSIVE ClassifyFrom(_, _, _, _, _, _)
ClassifyFrom(m, fills, i, seen, start, acc) ==
    IF i > Len(fills) THEN [seen |-> seen, new |-> acc]
    ELSE IF IsNew(fills[i], seen, start)
         THEN ClassifyFrom(m, fills, i + 1, seen \cup {TransactionId(fills[i])},
                           start, Append(acc, MakeTx(m, fills[i], "poll")))
         ELSE ClassifyFrom(m, fills, i + 1, seen, start, acc)

Classify(m, fills, seen, start) == ClassifyFrom(m, fills, 1, seen, start, <<>>)

\* The title and body handed to send_to_all_keys, as the values interpolated.
MessageText(tx) == <<tx.timestamp, tx.token, tx.side>>
MessageDesp(m, tx) == <<m, tx.token, tx.side, tx.timestamp>>

-----------------------------------------------------------------------------
(* The monitor tasks.                                                      *)

InitLoop ==
    /\ \E su \in Setups :
          /\ registered = su.registered
          /\ exchange = su.exchange
    /\ sendkeys \in LoopKeyLists
    /\ pc = [m \in Monitors |-> "idle"]
    /\ monitor_type = [m \in Monitors |-> NONE]
    /\ keys = [m \in Monitors |-> <<>>]
    /\ start_time = [m \in Monitors |-> 0]
    /\ last_transaction_ids = [m \in Monitors |-> {}]
    /\ pending = [m \in Monitors |-> <<>>]
    /\ new_transactions = [m \in Monitors |-> <<>>]
    /\ txIdx = [m \in Monitors |-> 0]
    /\ transactions = <<>>
    /\ ticks = 0
    /\ bootFills = [m \in Monitors |-> NoFetch]
    /\ lastFetch = [m \in Monitors |-> NoFetch]
    /\ notified = [m \in Monitors |-> <<>>]

\* No GUI: nothing is registered through it and nobody reads the list.
InitNoGui ==
    /\ lock = {}
    /\ rows = <<>>
    /\ addresses = <<>>
    /\ address = [m \in Monitors |-> <<>>]

Init ==
    /\ InitLoop
    /\ fnIn = NoCall
    /\ fnOut = NoResult
    /\ InitNoGui

\* rt.spawn(monitor_address(addr, monitor_type, txs, keys)) up to the first
\* fetch: the client is built, the address parsed, start_time read.
Spawn(m) ==
    /\ m \in registered
    /\ pc[m] = "idle"
    /\ \E ty \in {"Transactions", "Perpetuals"}, now \in Clock :
          /\ monitor_type' = [monitor_type EXCEPT ![m] = ty]
          /\ start_time' = [start_time EXCEPT ![m] = now]
          /\ pc' = [pc EXCEPT ![m] =
                      IF ty = "Transactions" THEN "boot_fetch" ELSE "perp_init"]
    /\ keys' = [keys EXCEPT ![m] = sendkeys]
    /\ UNCHANGED <<registered, exchange, sendkeys, last_transaction_ids, pending,
                   new_transactions, txIdx, transactions, ticks, bootFills,
                   lastFetch, notified, fnIn, fnOut, guiVars>>

\* InfoClient::new(..).await.unwrap() or address.parse().unwrap() panics.
SpawnPanic(m) ==
    /\ m \in registered
    /\ pc[m] = "idle"
    /\ pc' = [pc EXCEPT ![m] = "panicked"]
    /\ UNCHANGED <<registered, exchange, sendkeys, monitor_type, keys, start_time,
                   last_transaction_ids, pending, new_transactions, txIdx,
                   transactions, ticks, bootFills, lastFetch, notified,
                   fnIn, fnOut, guiVars>>

\* The initial user_fills returns Ok(fills).
BootFetchOk(m) ==
    /\ pc[m] = "boot_fetch"
    /\ \E fills \in Snapshots(m) :
          /\ pending' = [pending EXCEPT ![m] = fills]
          /\ bootFills' = [bootFills EXCEPT ![m] = OkFetch(SeqRange(fills))]
    /\ pc' = [pc EXCEPT ![m] = "boot"]
    /\ UNCHANGED <<registered, exchange, sendkeys, monitor_type, keys, start_time,
                   last_transaction_ids, new_transactions, txIdx, transactions,
                   ticks, lastFetch, notified, fnIn, fnOut, guiVars>>

\* The initial user_fills returns Err.
BootFetchErr(m) ==
    /\ pc[m] = "boot_fetch"
    /\ bootFills' = [bootFills EXCEPT ![m] = ErrFetch]
    /\ pc' = [pc EXCEPT ![m] = "sleep"]
    /\ UNCHANGED <<registered, exchange, sendkeys, monitor_type, keys, start_time,
                   last_transaction_ids, pending, new_transactions, txIdx,
                   transactions, ticks, lastFetch, notified, fnIn, fnOut, guiVars>>

\* One iteration of the bootstrap `for fill in fills`: the id is inserted and
\* a fill of the last hour is pushed under the lock.
BootStep(m) ==
    /\ pc[m] = "boot"
    /\ pending[m] # <<>>
    /\ LET fill == Head(pending[m])
       IN  /\ last_transaction_ids' =
                 [last_transaction_ids EXCEPT ![m] = @ \cup {TransactionId(fill)}]
           /\ transactions' =
                 IF InBackfill(fill, start_time[m])
                 THEN Append(transactions, MakeTx(m, fill, "boot"))
                 ELSE transactions
    /\ pending' = [pending EXCEPT ![m] = Tail(@)]
    /\ UNCHANGED <<registered, exchange, sendkeys, pc, monitor_type, keys, start_time,
                   new_transactions, txIdx, ticks, bootFills, lastFetch,
                   notified, fnIn, fnOut, guiVars>>

\* The bootstrap loop is over; the task enters `loop`.
BootDone(m) ==
    /\ pc[m] = "boot"
    /\ pending[m] = <<>>
    /\ pc' = [pc EXCEPT ![m] = "sleep"]
    /\ UNCHANGED <<registered, exchange, sendkeys, monitor_type, keys, start_time,
                   last_transaction_ids, pending, new_transactions, txIdx,
                   transactions, ticks, bootFills, lastFetch, notified,
                   fnIn, fnOut, guiVars>>

\* The model stops starting poll iterations after MaxTicks of them.
TicksLeft == ticks < MaxTicks

\* time::sleep(10 s) ends and user_fills is called.
Sleep(m) ==
    /\ pc[m] = "sleep"
    /\ TicksLeft
    /\ ticks' = ticks + 1
    /\ lastFetch' = [lastFetch EXCEPT ![m] = NoFetch]
    /\ pc' = [pc EXCEPT ![m] = "fetch"]
    /\ UNCHANGED <<registered, exchange, sendkeys, monitor_type, keys, start_time,
                   last_transaction_ids, pending, new_transactions, txIdx,
                   transactions, bootFills, notified, fnIn, fnOut, guiVars>>

\* Where the tick goes after the classification loop.
AfterClassify(new, ks) ==
    IF new = <<>> THEN "sleep"
    ELSE IF ks = <<>> THEN "extend"
    ELSE "notify"

PollFetchOkSharedSeen(m) ==
    /\ pc[m] = "fetch"
    /\ \E fills \in Snapshots(m) :
          LET c == Classify(m, fills, last_transaction_ids[m], start_time[m])
          IN  /\ last_transaction_ids' = [o \in Monitors |-> c.seen]
              /\ new_transactions' = [new_transactions EXCEPT ![m] = c.new]
              /\ txIdx' = [txIdx EXCEPT ![m] = IF c.new = <<>> THEN 0 ELSE 1]
              /\ pc' = [pc EXCEPT ![m] = AfterClassify(c.new, keys[m])]
              /\ lastFetch' = [lastFetch EXCEPT ![m] =
                                  PollFetch(fills, last_transaction_ids[m])]
    /\ UNCHANGED <<registered, exchange, sendkeys, monitor_type, keys, start_time, pending,
                   transactions, ticks, bootFills, notified, fnIn, fnOut, guiVars>>

\* user_fills returns Ok(fills): the classification loop runs.
PollFetchOk(m) ==
    /\ pc[m] = "fetch"
    /\ \E fills \in Snapshots(m) :
          LET c == Classify(m, fills, last_transaction_ids[m], start_time[m])
          IN  /\ last_transaction_ids' =
                    [last_transaction_ids EXCEPT ![m] = c.seen]
              /\ new_transactions' = [new_transactions EXCEPT ![m] = c.new]
              /\ txIdx' = [txIdx EXCEPT ![m] = IF c.new = <<>> THEN 0 ELSE 1]
              /\ pc' = [pc EXCEPT ![m] = AfterClassify(c.new, keys[m])]
              /\ lastFetch' = [lastFetch EXCEPT ![m] =
                                  PollFetch(fills, last_transaction_ids[m])]
    /\ UNCHANGED <<registered, exchange, sendkeys, monitor_type, keys, start_time, pending,
                   transactions, ticks, bootFills, notified, fnIn, fnOut, guiVars>>

PollFetchErrStops(m) ==
    /\ pc[m] = "fetch"
    /\ lastFetch' = [lastFetch EXCEPT ![m] = ErrFetch]
    /\ pc' = [pc EXCEPT ![m] = "stopped"]
    /\ UNCHANGED <<registered, exchange, sendkeys, monitor_type, keys, start_time,
                   last_transaction_ids, pending, new_transactions, txIdx,
                   transactions, ticks, bootFills, notified, fnIn, fnOut, guiVars>>

\* user_fills returns Err: the body of `if let Ok(fills)` is skipped.
PollFetchErr(m) ==
    /\ pc[m] = "fetch"
    /\ lastFetch' = [lastFetch EXCEPT ![m] = ErrFetch]
    /\ pc' = [pc EXCEPT ![m] = "sleep"]
    /\ UNCHANGED <<registered, exchange, sendkeys, monitor_type, keys, start_time,
                   last_transaction_ids, pending, new_transactions, txIdx,
                   transactions, ticks, bootFills, notified, fnIn, fnOut, guiVars>>

NotifyDropsOnError(m) ==
    /\ pc[m] = "notify"
    /\ LET tx == new_transactions[m][txIdx[m]]
       IN  \E nets \in [1..Len(keys[m]) -> NetOutcomes] :
              LET calls == SendToAllKeys(MessageText(tx), MessageDesp(m, tx),
                                         keys[m], nets)
                  failed == \E i \in 1..Len(calls) : calls[i].result # "ok"
              IN  /\ notified' = [notified EXCEPT ![m] =
                        @ \o [i \in 1..Len(calls) |->
                                [gid |-> tx.gid, timestamp |-> tx.timestamp,
                                 pos |-> calls[i].pos, key |-> calls[i].key,
                                 result |-> calls[i].result,
                                 gkeys |-> sendkeys]]]
                  /\ IF failed
                     THEN /\ txIdx' = [txIdx EXCEPT ![m] = 0]
                          /\ new_transactions' = [new_transactions EXCEPT ![m] = <<>>]
                          /\ pc' = [pc EXCEPT ![m] = "sleep"]
                     ELSE /\ new_transactions' = new_transactions
                          /\ IF txIdx[m] < Len(new_transactions[m])
                             THEN /\ txIdx' = [txIdx EXCEPT ![m] = @ + 1]
                                  /\ pc' = pc
                             ELSE /\ txIdx' = [txIdx EXCEPT ![m] = 0]
                                  /\ pc' = [pc EXCEPT ![m] = "extend"]
    /\ UNCHANGED <<registered, exchange, sendkeys, monitor_type, keys, start_time,
                   last_transaction_ids, pending,
                   transactions, ticks, bootFills, lastFetch, fnIn, fnOut, guiVars>>

NotifyCurrentKeys(m) ==
    /\ pc[m] = "notify"
    /\ LET tx == new_transactions[m][txIdx[m]]
       IN  \E nets \in [1..Len(sendkeys) -> NetOutcomes] :
              LET calls == SendToAllKeys(MessageText(tx), MessageDesp(m, tx),
                                         sendkeys, nets)
              IN  notified' = [notified EXCEPT ![m] =
                     @ \o [i \in 1..Len(calls) |->
                             [gid |-> tx.gid, timestamp |-> tx.timestamp,
                              pos |-> calls[i].pos, key |-> calls[i].key,
                              result |-> calls[i].result,
                              gkeys |-> sendkeys]]]
    /\ IF txIdx[m] < Len(new_transactions[m])
       THEN /\ txIdx' = [txIdx EXCEPT ![m] = @ + 1]
            /\ pc' = pc
       ELSE /\ txIdx' = [txIdx EXCEPT ![m] = 0]
            /\ pc' = [pc EXCEPT ![m] = "extend"]
    /\ UNCHANGED <<registered, exchange, sendkeys, monitor_type, keys, start_time,
                   last_transaction_ids, pending, new_transactions,
                   transactions, ticks, bootFills, lastFetch, fnIn, fnOut, guiVars>>

\* One iteration of `for tx in &new_transactions`: send_to_all_keys.  A call
\* is recorded with its key, with what it returned and, as gkeys, with the
\* key list of the registry at the time.
Notify(m) ==
    /\ pc[m] = "notify"
    /\ LET tx == new_transactions[m][txIdx[m]]
       IN  \E nets \in [1..Len(keys[m]) -> NetOutcomes] :
              LET calls == SendToAllKeys(MessageText(tx), MessageDesp(m, tx),
                                         keys[m], nets)
              IN  notified' = [notified EXCEPT ![m] =
                     @ \o [i \in 1..Len(calls) |->
                             [gid |-> tx.gid, timestamp |-> tx.timestamp,
                              pos |-> calls[i].pos, key |-> calls[i].key,
                              result |-> calls[i].result,
                              gkeys |-> sendkeys]]]
    /\ IF txIdx[m] < Len(new_transactions[m])
       THEN /\ txIdx' = [txIdx EXCEPT ![m] = @ + 1]
            /\ pc' = pc
       ELSE /\ txIdx' = [txIdx EXCEPT ![m] = 0]
            /\ pc' = [pc EXCEPT ![m] = "extend"]
    /\ UNCHANGED <<registered, exchange, sendkeys, monitor_type, keys, start_time,
                   last_transaction_ids, pending, new_transactions,
                   transactions, ticks, bootFills, lastFetch, fnIn, fnOut, guiVars>>

\* txs.extend(new_transactions) under the lock.
Extend(m) ==
    /\ pc[m] = "extend"
    /\ transactions' = transactions \o new_transactions[m]
    /\ new_transactions' = [new_transactions EXCEPT ![m] = <<>>]
    /\ txIdx' = [txIdx EXCEPT ![m] = 0]
    /\ pc' = [pc EXCEPT ![m] = "sleep"]
    /\ UNCHANGED <<registered, exchange, sendkeys, monitor_type, keys, start_time,
                   last_transaction_ids, pending, ticks, bootFills, lastFetch,
                   notified, fnIn, fnOut, guiVars>>

\* Perpetuals: the initial user_state; last_positions is dropped either way.
PerpInit(m) ==
    /\ pc[m] = "perp_init"
    /\ pc' = [pc EXCEPT ![m] = "perp_sleep"]
    /\ UNCHANGED <<registered, exchange, sendkeys, monitor_type, keys, start_time,
                   last_transaction_ids, pending, new_transactions, txIdx,
                   transactions, ticks, bootFills, lastFetch, notified,
                   fnIn, fnOut, guiVars>>

\* Perpetuals: one pass of `loop`.  The match arm is empty in monitor.rs;
\* in monitor_headless.rs it calls user_state and drops the result.
PerpSleep(m) ==
    /\ pc[m] = "perp_sleep"
    /\ TicksLeft
    /\ ticks' = ticks + 1
    /\ \E build \in {"gui", "headless"} :
          pc' = [pc EXCEPT ![m] =
                   IF build = "headless" THEN "perp_fetch" ELSE "perp_sleep"]
    /\ UNCHANGED <<registered, exchange, sendkeys, monitor_type, keys, start_time,
                   last_transaction_ids, pending, new_transactions, txIdx,
                   transactions, bootFills, lastFetch, notified, fnIn, fnOut, guiVars>>

PerpFetchRecords(m) ==
    /\ pc[m] = "perp_fetch"
    /\ pc' = [pc EXCEPT ![m] = "perp_sleep"]
    /\ \E f \in exchange[m] :
          transactions' = Append(transactions, MakeTx(m, f, "poll"))
    /\ UNCHANGED <<registered, exchange, sendkeys, monitor_type, keys, start_time,
                   last_transaction_ids, pending, new_transactions, txIdx,
                   ticks, bootFills, lastFetch, notified, fnIn, fnOut, guiVars>>

PerpFetch(m) ==
    /\ pc[m] = "perp_fetch"
    /\ pc' = [pc EXCEPT ![m] = "perp_sleep"]
    /\ UNCHANGED <<registered, exchange, sendkeys, monitor_type, keys, start_time,
                   last_transaction_ids, pending, new_transactions, txIdx,
                   transactions, ticks, bootFills, lastFetch, notified,
                   fnIn, fnOut, guiVars>>

Next ==
    \E m \in Monitors :
        \/ Spawn(m)
        \/ SpawnPanic(m)
        \/ BootFetchOk(m)
        \/ BootFetchErr(m)
        \/ BootStep(m)
        \/ BootDone(m)
        \/ Sleep(m)
        \/ PollFetchOk(m)
        \/ PollFetchErr(m)
        \/ Notify(m)
        \/ Extend(m)
        \/ PerpInit(m)
        \/ PerpSleep(m)
        \/ PerpFetch(m)

Spec == Init /\ [][Next]_vars

-----------------------------------------------------------------------------
(* Vocabulary of the properties.                                           *)

Ids(m) == { TransactionId(f) : f \in exchange[m] }

\* Positions of the records task m built from the fill id in loop src.
LogRecords(m, id, src) ==
    { i \in 1..Len(transactions) :
        /\ transactions[i].gby = m
        /\ transactions[i].gid = id
        /\ transactions[i].gsrc = src }

\* Positions of the records of the running tick not yet in the list.
TickRecords(m, id) ==
    { i \in 1..Len(new_transactions[m]) : new_transactions[m][i].gid = id }

\* Positions of the sc_send calls task m made for the fill id at key position p.
Calls(m, id, p) ==
    { i \in 1..Len(notified[m]) :
        notified[m][i].gid = id /\ notified[m][i].pos = p }

CallsFor(m, id) == { i \in 1..Len(notified[m]) : notified[m][i].gid = id }

BootFetched(m) == bootFills[m].st = "ok"
PollFetched(m) == lastFetch[m].st = "ok"

\* The task is past its bootstrap.
Booted(m) == pc[m] \in {"sleep", "fetch", "notify", "extend"}

\* The task is between two poll iterations.
Resting(m) == pc[m] = "sleep"

-----------------------------------------------------------------------------
\* C1: whatever the fetches return and however often a fill is fetched again,
\* a task builds at most one poll record for a fill identifier and calls
\* sc_send at most once for it at every position of its key list.
C1_NewAtMostOnce ==
    \A m \in Monitors : \A id \in Ids(m) :
        /\ Cardinality(LogRecords(m, id, "poll")) + Cardinality(TickRecords(m, id)) <= 1
        /\ \A p \in 1..MaxKeys + 1 : Cardinality(Calls(m, id, p)) <= 1

\* A fill that already has its poll record and its notifications is fetched
\* again by a later poll.
C1_Witness ==
    \E m \in Monitors : \E f \in exchange[m] :
        /\ Resting(m)
        /\ PollFetched(m)
        /\ f \in lastFetch[m].fills
        /\ new_transactions[m] = <<>>
        /\ Cardinality(LogRecords(m, TransactionId(f), "poll")) = 1
        /\ \A i \in LogRecords(m, TransactionId(f), "poll") :
              transactions[i].gtick < ticks
        /\ Len(keys[m]) = 2
        /\ \A p \in 1..2 : Cardinality(Calls(m, TransactionId(f), p)) = 1
        /\ Len(transactions) = 1

\* C2: the list never holds two records of one task for one fill identifier,
\* and the identifier of every record of a task is in its
\* last_transaction_ids.
C2_OneRecordPerFill ==
    \A m \in Monitors : \A id \in Ids(m) :
        LET recs == LogRecords(m, id, "boot") \cup LogRecords(m, id, "poll")
        IN  /\ Cardinality(recs) <= 1
            /\ recs # {} => id \in last_transaction_ids[m]

\* C3: once a Transactions task with a key rests between two iterations,
\* every fill later than start_time that its bootstrap fetch or its latest
\* poll fetch returned has been notified exactly once at every key.
C3_NotifiedExactlyOnce ==
    \A m \in Monitors :
        (monitor_type[m] = "Transactions" /\ keys[m] # <<>> /\ Resting(m)) =>
            \A f \in bootFills[m].fills \cup lastFetch[m].fills :
                f.time > start_time[m] =>
                    \A p \in 1..Len(keys[m]) :
                        Cardinality(Calls(m, TransactionId(f), p)) = 1

\* C4: a poll never takes a fill at or before start_time as new: no record
\* of the poll loop and no sc_send call is for such a fill, whether or not
\* its identifier is in last_transaction_ids.
C4_OldFillsNeverNew ==
    \A m \in Monitors :
        /\ \A i \in 1..Len(new_transactions[m]) :
              new_transactions[m][i].timestamp > start_time[m]
        /\ \A i \in 1..Len(transactions) :
              (transactions[i].gby = m /\ transactions[i].gsrc = "poll") =>
                  transactions[i].timestamp > start_time[m]
        /\ \A i \in 1..Len(notified[m]) :
              notified[m][i].timestamp > start_time[m]
        /\ \A f \in lastFetch[m].fills :
              f.time <= start_time[m] =>
                  /\ TickRecords(m, TransactionId(f)) = {}
                  /\ LogRecords(m, TransactionId(f), "poll") = {}
                  /\ CallsFor(m, TransactionId(f)) = {}

\* After a failed bootstrap fetch a poll has returned a fill at or before
\* start_time whose identifier the task had never seen.
C4_Witness ==
    \E m \in Monitors : \E f \in lastFetch[m].fills :
        /\ bootFills[m] = ErrFetch
        /\ Resting(m)
        /\ f.time <= start_time[m]
        /\ TransactionId(f) \notin last_transaction_ids[m]
        /\ keys[m] # <<>>

\* C5 as stated: a fill of the bootstrap fetch with
\* start_time - 3600000 <= time <= start_time is in the list and is never
\* notified.
C5_BackfillInclusive ==
    \A m \in Monitors :
        (Booted(m) /\ BootFetched(m)) =>
            \A f \in bootFills[m].fills :
                (start_time[m] - BackfillMs <= f.time /\ f.time <= start_time[m]) =>
                    /\ LogRecords(m, TransactionId(f), "boot") # {}
                    /\ CallsFor(m, TransactionId(f)) = {}

\* C5 amended: a fill of the bootstrap fetch with
\* start_time - 3600000 < time <= start_time is in the list and is never
\* notified, however often it is fetched again.
C5_BackfillLoggedNotNotified ==
    \A m \in Monitors :
        (Booted(m) /\ BootFetched(m)) =>
            \A f \in bootFills[m].fills :
                (start_time[m] - BackfillMs < f.time /\ f.time <= start_time[m]) =>
                    /\ LogRecords(m, TransactionId(f), "boot") # {}
                    /\ LogRecords(m, TransactionId(f), "poll") = {}
                    /\ TickRecords(m, TransactionId(f)) = {}
                    /\ CallsFor(m, TransactionId(f)) = {}

\* A fill of the last hour came with the bootstrap fetch and again with a
\* poll fetch of a task that has a key.
C5_Witness ==
    \E m \in Monitors : \E f \in bootFills[m].fills :
        /\ Resting(m)
        /\ start_time[m] - BackfillMs < f.time /\ f.time <= start_time[m]
        /\ PollFetched(m)
        /\ f \in lastFetch[m].fills
        /\ keys[m] # <<>>

\* The hour before start_time, its far end as the bootstrap test has it.
InLastHour(f, start) == start - BackfillMs < f.time /\ f.time <= start

\* C6: the bootstrap calls sc_send for nothing, and once it is over every
\* fill it fetched is in last_transaction_ids, a fetched fill of the hour
\* before start_time has its record, and a fetched fill outside that hour has
\* no record and no notification.
C6_BootstrapWindow ==
    \A m \in Monitors :
        /\ (pc[m] \in {"boot_fetch", "boot"}) => notified[m] = <<>>
        /\ (Booted(m) /\ BootFetched(m)) =>
              \A f \in bootFills[m].fills :
                  /\ TransactionId(f) \in last_transaction_ids[m]
                  /\ InLastHour(f, start_time[m]) =>
                        LogRecords(m, TransactionId(f), "boot") # {}
                  /\ ~InLastHour(f, start_time[m]) =>
                        /\ LogRecords(m, TransactionId(f), "boot") = {}
                        /\ LogRecords(m, TransactionId(f), "poll") = {}
                        /\ CallsFor(m, TransactionId(f)) = {}

\* C7: a poll fetch that fails changes no last_transaction_ids, no record
\* list and no notification history and leaves the task at the sleep of the
\* next iteration, which it starts unless the model's tick budget is spent.
C7_SkipStep ==
    \A m \in Monitors :
        (pc[m] = "fetch" /\ lastFetch'[m] = ErrFetch) =>
            /\ pc'[m] = "sleep"
            /\ last_transaction_ids' = last_transaction_ids
            /\ new_transactions' = new_transactions
            /\ transactions' = transactions
            /\ notified' = notified

C7_NextTick ==
    \A m \in Monitors :
        (pc[m] = "sleep" /\ lastFetch[m] = ErrFetch) =>
            (TicksLeft => ENABLED Sleep(m))

C7_FetchFailureSkips == [][C7_SkipStep]_vars /\ []C7_NextTick

\* A poll fetch failed for a task that holds seen identifiers and records,
\* and after an earlier failure the task polled again.
C7_Witness ==
    \E m \in Monitors :
        /\ pc[m] = "sleep"
        /\ lastFetch[m] = ErrFetch
        /\ last_transaction_ids[m] # {}
        /\ \E i \in 1..Len(transactions) :
              transactions[i].gby = m /\ transactions[i].gsrc = "poll"
        /\ keys[m] # <<>>
        /\ ticks = 2

-----------------------------------------------------------------------------
(* sc_send and send_to_all_keys alone: a call is drawn, then made.         *)

KeyChars == {"1", "2", "t", "X"}

\* Keys for sc_send: an optional sctp, a free segment, an optional second
\* sctp, a free segment.
KeyUniverse ==
    { p \o a \o q \o b :
        p \in {<<>>, Sctp}, q \in {<<>>, Sctp},
        a \in SeqsUpTo(KeyChars, MaxSeg), b \in SeqsUpTo(KeyChars, MaxSeg) }

KeyEmpty == <<>>
KeyValid == <<"s", "c", "t", "p", "1", "2", "t", "X">>
KeyLate == <<"s", "c", "t", "p", "X", "s", "c", "t", "p", "1", "t">>

\* Keys for the lists of send_to_all_keys.
FanKeys == {KeyEmpty, KeyPlain, KeyNoDigits, KeyValid, KeyLate}

InitSend ==
    /\ registered = {}
    /\ exchange = [m \in Monitors |-> {}]
    /\ sendkeys = <<>>
    /\ pc = [m \in Monitors |-> "idle"]
    /\ monitor_type = [m \in Monitors |-> NONE]
    /\ keys = [m \in Monitors |-> <<>>]
    /\ start_time = [m \in Monitors |-> 0]
    /\ last_transaction_ids = [m \in Monitors |-> {}]
    /\ pending = [m \in Monitors |-> <<>>]
    /\ new_transactions = [m \in Monitors |-> <<>>]
    /\ txIdx = [m \in Monitors |-> 0]
    /\ transactions = <<>>
    /\ ticks = 0
    /\ bootFills = [m \in Monitors |-> NoFetch]
    /\ lastFetch = [m \in Monitors |-> NoFetch]
    /\ notified = [m \in Monitors |-> <<>>]
    /\ \/ \E key \in KeyUniverse, net \in NetOutcomes :
             fnIn = [op |-> "sc_send", keys |-> <<key>>, nets |-> <<net>>]
       \/ \E ks \in SeqsUpTo(FanKeys, MaxKeys) :
             \E nets \in [1..Len(ks) -> NetOutcomes] :
                fnIn = [op |-> "send_to_all_keys", keys |-> ks, nets |-> nets]
    /\ fnOut = NoResult
    /\ InitNoGui

\* sc_send(text, desp, key).await
CallScSend ==
    /\ fnIn.op = "sc_send"
    /\ ~fnOut.done
    /\ fnOut' = [done |-> TRUE,
                 calls |-> << [pos |-> 1, key |-> fnIn.keys[1], text |-> "text"]
                               @@ ScSend("text", "desp", fnIn.keys[1], fnIn.nets[1]) >>]
    /\ UNCHANGED <<loopVars, fnIn, guiVars>>

\* send_to_all_keys(text, desp, keys).await
CallSendToAllKeys ==
    /\ fnIn.op = "send_to_all_keys"
    /\ ~fnOut.done
    /\ fnOut' = [done |-> TRUE,
                 calls |-> SendToAllKeys("text", "desp", fnIn.keys, fnIn.nets)]
    /\ UNCHANGED <<loopVars, fnIn, guiVars>>

NextSend == CallScSend \/ CallSendToAllKeys

SpecSend == InitSend /\ [][NextSend]_vars

-----------------------------------------------------------------------------
(* Vocabulary of the notification properties.                              *)

FanDone == fnIn.op = "send_to_all_keys" /\ fnOut.done
SendDone == fnIn.op = "sc_send" /\ fnOut.done

\* The sc_send calls made for position i of the key list.
CallsAt(i) == { j \in 1..Len(fnOut.calls) : fnOut.calls[j].pos = i }

\* key is sctp, then the n digits d, then t.
HasNumberedPrefix(key, n) ==
    /\ n >= 1
    /\ Len(key) >= 5 + n
    /\ SubSeq(key, 1, 4) = <<"s", "c", "t", "p">>
    /\ \A i \in 5..4 + n : IsDigit(key[i])
    /\ key[5 + n] = "t"

C9_DestinationUrl ==
    SendDone =>
        LET key == fnIn.keys[1]
            r == fnOut.calls[1]
        IN  /\ \A n \in 1..Len(key) :
                  HasNumberedPrefix(key, n) =>
                      /\ r.posted
                      /\ r.url = <<"https://">> \o SubSeq(key, 5, 4 + n)
                                   \o <<".push.ft07.com/send/">> \o key \o <<".send">>
            /\ (Len(key) < 4 \/ SubSeq(key, 1, 4) # <<"s", "c", "t", "p">>) =>
                  /\ r.posted
                  /\ r.url = <<"https://sctapi.ftqq.com/">> \o key \o <<".send">>

\* sc_send has been called with the key sctp12tX and has posted to
\* https://12.push.ft07.com/send/sctp12tX.send.
C9_Witness ==
    /\ SendDone
    /\ fnIn.keys[1] = <<"s", "c", "t", "p", "1", "2", "t", "X">>
    /\ fnOut.calls[1].posted
    /\ fnOut.calls[1].url[2] = "1" /\ fnOut.calls[1].url[3] = "2"

\* C10: for a key that starts with sctp and has no digit run followed by t
\* right after that prefix, sc_send fails with the format error and posts
\* nothing; in a key list the calls for the other keys are made as without it.
C10_NoNumberFormatError ==
    /\ SendDone =>
          LET key == fnIn.keys[1]
          IN  (/\ Len(key) >= 4
               /\ SubSeq(key, 1, 4) = <<"s", "c", "t", "p">>
               /\ \A n \in 1..Len(key) : ~HasNumberedPrefix(key, n)) =>
                  /\ fnOut.calls[1].result = "format_error"
                  /\ ~fnOut.calls[1].posted
    /\ FanDone =>
          \A i \in 1..Len(fnIn.keys) :
              (fnIn.keys[i] # <<>> /\ fnIn.keys[i] # KeyNoDigits) =>
                  \E j \in CallsAt(i) :
                      fnOut.calls[j].posted /\ fnOut.calls[j].result = fnIn.nets[i]

-----------------------------------------------------------------------------
(* The Mutex of transactions.  In Spec a push or an extend under the lock  *)
(* is one step; here taking the lock, every push and dropping the guard    *)
(* are steps of their own, and the GUI reads the list while the tasks run. *)

GUI == "gui"

\* One task whose polls can find two new fills at once, or two tasks with
\* one fill each.
LockSetups ==
    { Setup({"m1"}, {FillNew1, FillNew3}, {}),
      Setup({"m1", "m2"}, {FillNew1}, {FillNew2}) }

\* Two tasks, one of which can find two new fills at once.
BatchSetups == { Setup({"m1", "m2"}, {FillNew1, FillNew3}, {FillNew2}) }

\* The one key registered is a key sc_send refuses before any POST (sctp
\* with no number after it), so that the runs do not branch on the network.
InitLockIn(setups) ==
    /\ \E su \in setups :
          /\ registered = su.registered
          /\ exchange = su.exchange
    /\ sendkeys = <<KeyNoDigits>>
    /\ pc = [m \in Monitors |-> "idle"]
    /\ monitor_type = [m \in Monitors |-> NONE]
    /\ keys = [m \in Monitors |-> <<>>]
    /\ start_time = [m \in Monitors |-> 0]
    /\ last_transaction_ids = [m \in Monitors |-> {}]
    /\ pending = [m \in Monitors |-> <<>>]
    /\ new_transactions = [m \in Monitors |-> <<>>]
    /\ txIdx = [m \in Monitors |-> 0]
    /\ transactions = <<>>
    /\ ticks = 0
    /\ bootFills = [m \in Monitors |-> NoFetch]
    /\ lastFetch = [m \in Monitors |-> NoFetch]
    /\ notified = [m \in Monitors |-> <<>>]
    /\ fnIn = NoCall
    /\ fnOut = NoResult
    /\ InitNoGui

InitLock == InitLockIn(LockSetups)

InitBatch == InitLockIn(BatchSetups)

\* transactions.lock().unwrap() returns the guard: the Mutex is free.
Acquire(who) ==
    /\ lock = {}
    /\ lock' = {who}

ReleaseKeepsMutexLocked(who) == lock' = lock

\* The guard goes out of scope.
Release(who) == lock' = lock \ {who}

\* One iteration of the bootstrap `for fill in fills` up to the test of the
\* fill's time: the id is inserted; a fill of the last hour is to be pushed.
BootVisit(m) ==
    /\ pc[m] = "boot"
    /\ pending[m] # <<>>
    /\ LET fill == Head(pending[m])
       IN  /\ last_transaction_ids' =
                 [last_transaction_ids EXCEPT ![m] = @ \cup {TransactionId(fill)}]
           /\ IF InBackfill(fill, start_time[m])
              THEN /\ pc' = [pc EXCEPT ![m] = "boot_lock"]
                   /\ pending' = pending
              ELSE /\ pc' = pc
                   /\ pending' = [pending EXCEPT ![m] = Tail(@)]
    /\ UNCHANGED <<registered, exchange, sendkeys, monitor_type, keys, start_time,
                   new_transactions, txIdx, transactions, ticks, bootFills,
                   lastFetch, notified, fnIn, fnOut, guiVars>>

\* let mut txs = transactions.lock().unwrap(); in the bootstrap loop
BootAcquire(m) ==
    /\ pc[m] = "boot_lock"
    /\ Acquire(m)
    /\ pc' = [pc EXCEPT ![m] = "boot_push"]
    /\ UNCHANGED <<registered, exchange, sendkeys, monitor_type, keys, start_time,
                   last_transaction_ids, pending, new_transactions, txIdx,
                   transactions, ticks, bootFills, lastFetch, notified,
                   fnIn, fnOut, rows, addresses, address>>

\* txs.push(tx); in the bootstrap loop
BootPush(m) ==
    /\ pc[m] = "boot_push"
    /\ transactions' = Append(transactions, MakeTx(m, Head(pending[m]), "boot"))
    /\ pc' = [pc EXCEPT ![m] = "boot_unlock"]
    /\ UNCHANGED <<registered, exchange, sendkeys, monitor_type, keys, start_time,
                   last_transaction_ids, pending, new_transactions, txIdx,
                   ticks, bootFills, lastFetch, notified, fnIn, fnOut, guiVars>>

\* The end of the `if` block drops txs; the loop goes to the next fill.
BootRelease(m) ==
    /\ pc[m] = "boot_unlock"
    /\ Release(m)
    /\ pending' = [pending EXCEPT ![m] = Tail(@)]
    /\ pc' = [pc EXCEPT ![m] = "boot"]
    /\ UNCHANGED <<registered, exchange, sendkeys, monitor_type, keys, start_time,
                   last_transaction_ids, new_transactions, txIdx,
                   transactions, ticks, bootFills, lastFetch, notified,
                   fnIn, fnOut, rows, addresses, address>>

\* let mut txs = transactions.lock().unwrap(); after the notifications
ExtendAcquire(m) ==
    /\ pc[m] = "extend"
    /\ Acquire(m)
    /\ txIdx' = [txIdx EXCEPT ![m] = 1]
    /\ pc' = [pc EXCEPT ![m] = "extending"]
    /\ UNCHANGED <<registered, exchange, sendkeys, monitor_type, keys, start_time,
                   last_transaction_ids, pending, new_transactions,
                   transactions, ticks, bootFills, lastFetch, notified,
                   fnIn, fnOut, rows, addresses, address>>

ExtendPushPerRecord(m) ==
    /\ pc[m] = "extending"
    /\ txIdx[m] <= Len(new_transactions[m])
    /\ lock \subseteq {m}
    /\ lock' = {}
    /\ transactions' = Append(transactions, new_transactions[m][txIdx[m]])
    /\ txIdx' = [txIdx EXCEPT ![m] = @ + 1]
    /\ UNCHANGED <<registered, exchange, sendkeys, pc, monitor_type, keys, start_time,
                   last_transaction_ids, pending, new_transactions,
                   ticks, bootFills, lastFetch, notified, fnIn, fnOut, rows,
                   addresses, address>>

ExtendPushFront(m) ==
    /\ pc[m] = "extending"
    /\ txIdx[m] <= Len(new_transactions[m])
    /\ transactions' = <<new_transactions[m][txIdx[m]]>> \o transactions
    /\ txIdx' = [txIdx EXCEPT ![m] = @ + 1]
    /\ UNCHANGED <<registered, exchange, sendkeys, pc, monitor_type, keys, start_time,
                   last_transaction_ids, pending, new_transactions,
                   ticks, bootFills, lastFetch, notified, fnIn, fnOut, guiVars>>

\* txs.extend(new_transactions): the next element is pushed.
ExtendPush(m) ==
    /\ pc[m] = "extending"
    /\ txIdx[m] <= Len(new_transactions[m])
    /\ transactions' = Append(transactions, new_transactions[m][txIdx[m]])
    /\ txIdx' = [txIdx EXCEPT ![m] = @ + 1]
    /\ UNCHANGED <<registered, exchange, sendkeys, pc, monitor_type, keys, start_time,
                   last_transaction_ids, pending, new_transactions,
                   ticks, bootFills, lastFetch, notified, fnIn, fnOut, guiVars>>

ExtendReleaseKeepsGuard(m) ==
    /\ pc[m] = "extending"
    /\ txIdx[m] > Len(new_transactions[m])
    /\ new_transactions' = [new_transactions EXCEPT ![m] = <<>>]
    /\ txIdx' = [txIdx EXCEPT ![m] = 0]
    /\ pc' = [pc EXCEPT ![m] = "sleep"]
    /\ UNCHANGED <<registered, exchange, sendkeys, monitor_type, keys, start_time,
                   last_transaction_ids, pending, transactions, ticks,
                   bootFills, lastFetch, notified, fnIn, fnOut, guiVars>>

\* extend is over and the end of the `if` block drops txs.
ExtendRelease(m) ==
    /\ pc[m] = "extending"
    /\ txIdx[m] > Len(new_transactions[m])
    /\ Release(m)
    /\ new_transactions' = [new_transactions EXCEPT ![m] = <<>>]
    /\ txIdx' = [txIdx EXCEPT ![m] = 0]
    /\ pc' = [pc EXCEPT ![m] = "sleep"]
    /\ UNCHANGED <<registered, exchange, sendkeys, monitor_type, keys, start_time,
                   last_transaction_ids, pending, transactions, ticks,
                   bootFills, lastFetch, notified, fnIn, fnOut, rows,
                   addresses, address>>

\* MonitorApp::update, the table body: let txs = self.transactions.lock().unwrap();
ReadAcquire ==
    /\ Acquire(GUI)
    /\ rows' = rows
    /\ UNCHANGED <<loopVars, fnIn, fnOut, addresses, address>>

\* One pass of `for tx in txs.iter().rev()`: a row is drawn.
ReadRow ==
    /\ GUI \in lock
    /\ Len(rows) < Len(transactions)
    /\ rows' = Append(rows, transactions[Len(transactions) - Len(rows)])
    /\ UNCHANGED <<loopVars, fnIn, fnOut, lock, addresses, address>>

\* The body closure returns and drops txs; the rows of this frame are drawn.
ReadRelease ==
    /\ GUI \in lock
    /\ Len(rows) >= Len(transactions)
    /\ Release(GUI)
    /\ rows' = <<>>
    /\ UNCHANGED <<loopVars, fnIn, fnOut, addresses, address>>

NextLock ==
    \/ \E m \in Monitors :
          \/ Spawn(m)
          \/ SpawnPanic(m)
          \/ BootFetchOk(m)
          \/ BootFetchErr(m)
          \/ BootVisit(m)
          \/ BootAcquire(m)
          \/ BootPush(m)
          \/ BootRelease(m)
          \/ BootDone(m)
          \/ Sleep(m)
          \/ PollFetchOk(m)
          \/ PollFetchErr(m)
          \/ Notify(m)
          \/ ExtendAcquire(m)
          \/ ExtendPush(m)
          \/ ExtendRelease(m)
          \/ PerpInit(m)
          \/ PerpSleep(m)
          \/ PerpFetch(m)
    \/ ReadAcquire
    \/ ReadRow
    \/ ReadRelease

SpecLock == InitLock /\ [][NextLock]_vars

SpecBatch == InitBatch /\ [][NextLock]_vars

\* The task that may stay in a network call for ever.
Stuck == "m1"

\* The steps of task m between two suspension points: plain code, which
\* runs on once the task has been resumed.
SyncStep(m) ==
    \/ BootVisit(m) \/ BootPush(m) \/ BootRelease(m) \/ BootDone(m)
    \/ ExtendPush(m) \/ ExtendRelease(m)

\* lock() returns: std's Mutex wakes a waiting thread when the guard is
\* dropped, and no holder keeps the guard across an .await.
LockStep(m) == BootAcquire(m) \/ ExtendAcquire(m)

\* The steps of task m that end an .await: the client set-up, a fetch, the
\* POSTs of one send_to_all_keys, the sleep.
AwaitStep(m) ==
    \/ Spawn(m) \/ SpawnPanic(m)
    \/ BootFetchOk(m) \/ BootFetchErr(m)
    \/ Sleep(m)
    \/ PollFetchOk(m) \/ PollFetchErr(m)
    \/ Notify(m)
    \/ PerpInit(m) \/ PerpSleep(m) \/ PerpFetch(m)

\* Every task runs its plain code and gets the lock it waits for; every task
\* but Stuck has its awaits end; the GUI draws frame after frame.
FairLock ==
    /\ \A m \in Monitors : WF_vars(SyncStep(m)) /\ SF_vars(LockStep(m))
    /\ \A m \in Monitors \ {Stuck} : WF_vars(AwaitStep(m))
    /\ SF_vars(ReadAcquire)
    /\ WF_vars(ReadRow \/ ReadRelease)

SpecFairLock == InitLock /\ [][NextLock]_vars /\ FairLock

-----------------------------------------------------------------------------
(* The GUI's registry: the Add Monitor, Start, Stop and Delete buttons of  *)
(* MonitorApp::update, and the tasks Start spawns.  The elements of        *)
(* Monitors are the tasks here: a task takes its address and its type from *)
(* the entry of addresses it was started for, and exchange holds the fills *)
(* of the address each task fetches.                                       *)

UpperLetters ==
    <<"A", "B", "C", "D", "E", "F", "G", "H", "I", "J", "K", "L", "M", "N",
      "O", "P", "Q", "R", "S", "T", "U", "V", "W", "X", "Y", "Z">>

LowerLetters ==
    <<"a", "b", "c", "d", "e", "f", "g", "h", "i", "j", "k", "l", "m", "n",
      "o", "p", "q", "r", "s", "t", "u", "v", "w", "x", "y", "z">>

\* char::to_lowercase on ASCII.
LowerChar(c) ==
    IF \E k \in 1..Len(UpperLetters) : UpperLetters[k] = c
    THEN LowerLetters[CHOOSE k \in 1..Len(UpperLetters) : UpperLetters[k] = c]
    ELSE c

\* str::to_lowercase
ToLowercase(a) == [i \in 1..Len(a) |-> LowerChar(a[i])]

\* What the user types into the address field.
AddrUniverse == { <<"A">> }

MonitorTypes == {"Transactions", "Perpetuals"}

RemoveAt(q, i) == SubSeq(q, 1, i - 1) \o SubSeq(q, i + 1, Len(q))

InitGui ==
    /\ registered = {}
    /\ exchange = [m \in Monitors |-> {FillNew1}]
    /\ sendkeys = <<KeyNoDigits>>
    /\ pc = [m \in Monitors |-> "idle"]
    /\ monitor_type = [m \in Monitors |-> NONE]
    /\ keys = [m \in Monitors |-> <<>>]
    /\ start_time = [m \in Monitors |-> 0]
    /\ last_transaction_ids = [m \in Monitors |-> {}]
    /\ pending = [m \in Monitors |-> <<>>]
    /\ new_transactions = [m \in Monitors |-> <<>>]
    /\ txIdx = [m \in Monitors |-> 0]
    /\ transactions = <<>>
    /\ ticks = 0
    /\ bootFills = [m \in Monitors |-> NoFetch]
    /\ lastFetch = [m \in Monitors |-> NoFetch]
    /\ notified = [m \in Monitors |-> <<>>]
    /\ fnIn = NoCall
    /\ fnOut = NoResult
    /\ InitNoGui

\* An entry of addresses has the history field gstop: the number of poll
\* iterations started when its Stop button was last clicked.
NeverStopped == -1

AddMonitorPerPair(a, ty) ==
    /\ a # <<>>
    /\ LET address_exists ==
               \E i \in 1..Len(addresses) :
                   /\ ToLowercase(addresses[i].address) = ToLowercase(a)
                   /\ addresses[i].monitor_type = ty
       IN  addresses' =
               IF address_exists THEN addresses
               ELSE Append(addresses,
                           [address |-> a, monitor_type |-> ty, active |-> FALSE,
                            gstop |-> NeverStopped])
    /\ UNCHANGED <<loopVars, fnIn, fnOut, lock, rows, address>>

\* The Add Monitor button with a non-empty address field: the entry is
\* pushed unless an entry has the same address, letter case aside.
AddMonitor(a, ty) ==
    /\ a # <<>>
    /\ LET address_exists ==
               \E i \in 1..Len(addresses) :
                   ToLowercase(addresses[i].address) = ToLowercase(a)
       IN  addresses' =
               IF address_exists THEN addresses
               ELSE Append(addresses,
                           [address |-> a, monitor_type |-> ty, active |-> FALSE,
                            gstop |-> NeverStopped])
    /\ UNCHANGED <<loopVars, fnIn, fnOut, lock, rows, address>>

\* The task slot the next spawn takes.
TaskOrder == <<"m1", "m2">>

FreeTask(t) ==
    \E k \in 1..Len(TaskOrder) :
        /\ TaskOrder[k] = t
        /\ pc[t] = "idle"
        /\ \A j \in 1..k - 1 : pc[TaskOrder[j]] # "idle"

\* The Start button of entry i: monitor_address is spawned with clones of the
\* entry's address and type and of sendkeys, and the entry becomes active.
StartClick(i) ==
    /\ i \in 1..Len(addresses)
    /\ ~addresses[i].active
    /\ \E t \in Monitors :
          /\ FreeTask(t)
          /\ pc' = [pc EXCEPT ![t] = "spawned"]
          /\ address' = [address EXCEPT ![t] = addresses[i].address]
          /\ monitor_type' = [monitor_type EXCEPT ![t] = addresses[i].monitor_type]
          /\ keys' = [keys EXCEPT ![t] = sendkeys]
    /\ addresses' = [addresses EXCEPT ![i].active = TRUE]
    /\ UNCHANGED <<registered, exchange, sendkeys, start_time,
                   last_transaction_ids, pending, new_transactions, txIdx,
                   transactions, ticks, bootFills, lastFetch, notified,
                   fnIn, fnOut, lock, rows>>

StopClickCancels(i) ==
    /\ i \in 1..Len(addresses)
    /\ addresses[i].active
    /\ addresses' = [addresses EXCEPT ![i].active = FALSE, ![i].gstop = ticks]
    /\ pc' = [t \in Monitors |->
                IF pc[t] # "idle" /\ address[t] = addresses[i].address
                THEN "cancelled" ELSE pc[t]]
    /\ UNCHANGED <<registered, exchange, sendkeys, monitor_type, keys, start_time,
                   last_transaction_ids, pending, new_transactions, txIdx,
                   transactions, ticks, bootFills, lastFetch, notified,
                   fnIn, fnOut, lock, rows, address>>

\* The Stop button of entry i.
StopClick(i) ==
    /\ i \in 1..Len(addresses)
    /\ addresses[i].active
    /\ addresses' = [addresses EXCEPT ![i].active = FALSE, ![i].gstop = ticks]
    /\ UNCHANGED <<loopVars, fnIn, fnOut, lock, rows, address>>

\* The Delete button of entry i: self.addresses.remove(index).
DeleteClick(i) ==
    /\ i \in 1..Len(addresses)
    /\ addresses' = RemoveAt(addresses, i)
    /\ UNCHANGED <<loopVars, fnIn, fnOut, lock, rows, address>>

\* The spawned task builds its client, parses its address and reads the clock.
TaskBegin(t) ==
    /\ pc[t] = "spawned"
    /\ \E now \in Clock : start_time' = [start_time EXCEPT ![t] = now]
    /\ pc' = [pc EXCEPT ![t] =
                IF monitor_type[t] = "Transactions" THEN "boot_fetch" ELSE "perp_init"]
    /\ UNCHANGED <<registered, exchange, sendkeys, monitor_type, keys,
                   last_transaction_ids, pending, new_transactions, txIdx,
                   transactions, ticks, bootFills, lastFetch, notified,
                   fnIn, fnOut, guiVars>>

\* InfoClient::new(..).await.unwrap() or address.parse().unwrap() panics.
TaskPanic(t) ==
    /\ pc[t] = "spawned"
    /\ pc' = [pc EXCEPT ![t] = "panicked"]
    /\ UNCHANGED <<registered, exchange, sendkeys, monitor_type, keys, start_time,
                   last_transaction_ids, pending, new_transactions, txIdx,
                   transactions, ticks, bootFills, lastFetch, notified,
                   fnIn, fnOut, guiVars>>

\* A step of the task t after its spawn.
TaskStep(t) ==
    \/ TaskBegin(t)
    \/ TaskPanic(t)
    \/ BootFetchOk(t)
    \/ BootFetchErr(t)
    \/ BootStep(t)
    \/ BootDone(t)
    \/ Sleep(t)
    \/ PollFetchOk(t)
    \/ PollFetchErr(t)
    \/ Notify(t)
    \/ Extend(t)
    \/ PerpInit(t)
    \/ PerpSleep(t)
    \/ PerpFetch(t)

NextGui ==
    \/ \E a \in AddrUniverse, ty \in MonitorTypes : AddMonitor(a, ty)
    \/ \E i \in 1..Len(addresses) : StartClick(i) \/ StopClick(i) \/ DeleteClick(i)
    \/ \E t \in Monitors : TaskStep(t)

SpecGui == InitGui /\ [][NextGui]_vars

\* The registry alone: addresses typed in either letter case are added and
\* entries are deleted; nothing is started.
RegAddrs == { <<"a">>, <<"A">>, <<"b">>, <<"B">>, <<"c">> }

NextReg ==
    \/ \E a \in RegAddrs, ty \in MonitorTypes : AddMonitor(a, ty)
    \/ \E i \in 1..Len(addresses) : DeleteClick(i)

SpecReg == InitGui /\ [][NextReg]_vars

\* The key list of the GUI: keys are added and removed while a monitor is
\* added, started and runs.
GuiKeys == {KeyPlain, KeyNoDigits}

InitKeys ==
    /\ registered = {}
    /\ exchange = [m \in Monitors |-> {FillNew1}]
    /\ sendkeys = <<>>
    /\ pc = [m \in Monitors |-> "idle"]
    /\ monitor_type = [m \in Monitors |-> NONE]
    /\ keys = [m \in Monitors |-> <<>>]
    /\ start_time = [m \in Monitors |-> 0]
    /\ last_transaction_ids = [m \in Monitors |-> {}]
    /\ pending = [m \in Monitors |-> <<>>]
    /\ new_transactions = [m \in Monitors |-> <<>>]
    /\ txIdx = [m \in Monitors |-> 0]
    /\ transactions = <<>>
    /\ ticks = 0
    /\ bootFills = [m \in Monitors |-> NoFetch]
    /\ lastFetch = [m \in Monitors |-> NoFetch]
    /\ notified = [m \in Monitors |-> <<>>]
    /\ fnIn = NoCall
    /\ fnOut = NoResult
    /\ InitNoGui

\* The Add Key button with a non-empty key field.
AddKey(k) ==
    /\ k # <<>>
    /\ Len(sendkeys) < MaxKeys
    /\ sendkeys' = Append(sendkeys, k)
    /\ UNCHANGED <<registered, exchange, pc, monitor_type, keys, start_time,
                   last_transaction_ids, pending, new_transactions, txIdx,
                   transactions, ticks, bootFills, lastFetch, notified,
                   fnIn, fnOut, guiVars>>

\* The remove button of key i: self.sendkeys.remove(idx).
RemoveKey(i) ==
    /\ i \in 1..Len(sendkeys)
    /\ sendkeys' = RemoveAt(sendkeys, i)
    /\ UNCHANGED <<registered, exchange, pc, monitor_type, keys, start_time,
                   last_transaction_ids, pending, new_transactions, txIdx,
                   transactions, ticks, bootFills, lastFetch, notified,
                   fnIn, fnOut, guiVars>>

NextKeys ==
    \/ \E k \in GuiKeys : AddKey(k)
    \/ \E i \in 1..Len(sendkeys) : RemoveKey(i)
    \/ \E a \in AddrUniverse, ty \in MonitorTypes : AddMonitor(a, ty)
    \/ \E i \in 1..Len(addresses) : StartClick(i)
    \/ \E t \in Monitors : TaskStep(t)

SpecKeys == InitKeys /\ [][NextKeys]_vars

-----------------------------------------------------------------------------
(* monitor_headless.rs, main: addresses stands for config.monitors.  An     *)
(* entry has the history field gtask: "unvisited" until the loop of main    *)
(* has come to it, then "skipped" or the task spawned for it.               *)

\* The monitor_type strings of a configuration file; "other" stands for
\* any string but the two that main knows.
ConfigTypes == {"transactions", "perpetuals", "other"}

ConfigEntries ==
    [address : AddrUniverse, monitor_type : ConfigTypes, active : BOOLEAN,
     gtask : {"unvisited"}]

\* load_config() returned the configuration, or failed and the default
\* configuration without monitors was taken.
InitHeadless ==
    /\ registered = {}
    /\ exchange = [m \in Monitors |-> {FillNew1}]
    /\ sendkeys = <<KeyNoDigits>>
    /\ pc = [m \in Monitors |-> "idle"]
    /\ monitor_type = [m \in Monitors |-> NONE]
    /\ keys = [m \in Monitors |-> <<>>]
    /\ start_time = [m \in Monitors |-> 0]
    /\ last_transaction_ids = [m \in Monitors |-> {}]
    /\ pending = [m \in Monitors |-> <<>>]
    /\ new_transactions = [m \in Monitors |-> <<>>]
    /\ txIdx = [m \in Monitors |-> 0]
    /\ transactions = <<>>
    /\ ticks = 0
    /\ bootFills = [m \in Monitors |-> NoFetch]
    /\ lastFetch = [m \in Monitors |-> NoFetch]
    /\ notified = [m \in Monitors |-> <<>>]
    /\ fnIn = NoCall
    /\ fnOut = NoResult
    /\ lock = {}
    /\ rows = <<>>
    /\ addresses \in SeqsUpTo(ConfigEntries, Len(TaskOrder))
    /\ address = [m \in Monitors |-> <<>>]

\* match monitor.monitor_type.as_str()
ParseMonitorType(str) ==
    CASE str = "transactions" -> "Transactions"
      [] str = "perpetuals" -> "Perpetuals"
      [] OTHER -> "Transactions"

\* The entry the loop of main comes to next.
NextEntry(i) ==
    /\ i \in 1..Len(addresses)
    /\ addresses[i].gtask = "unvisited"
    /\ \A j \in 1..i - 1 : addresses[j].gtask # "unvisited"

MainVisitSpawnsAll ==
    \E i \in 1..Len(addresses), t \in Monitors :
        /\ NextEntry(i)
        /\ FreeTask(t)
        /\ pc' = [pc EXCEPT ![t] = "spawned"]
        /\ address' = [address EXCEPT ![t] = addresses[i].address]
        /\ monitor_type' = [monitor_type EXCEPT ![t] =
                               ParseMonitorType(addresses[i].monitor_type)]
        /\ keys' = [keys EXCEPT ![t] = sendkeys]
        /\ addresses' = [addresses EXCEPT ![i].gtask = t]
        /\ UNCHANGED <<registered, exchange, sendkeys, start_time,
                       last_transaction_ids, pending, new_transactions, txIdx,
                       transactions, ticks, bootFills, lastFetch, notified,
                       fnIn, fnOut, lock, rows>>

\* One pass of `for monitor in config.monitors`.
MainVisit ==
    \E i \in 1..Len(addresses) :
        /\ NextEntry(i)
        /\ IF addresses[i].active
           THEN \E t \in Monitors :
                   /\ FreeTask(t)
                   /\ pc' = [pc EXCEPT ![t] = "spawned"]
                   /\ address' = [address EXCEPT ![t] = addresses[i].address]
                   /\ monitor_type' = [monitor_type EXCEPT ![t] =
                                          ParseMonitorType(addresses[i].monitor_type)]
                   /\ keys' = [keys EXCEPT ![t] = sendkeys]
                   /\ addresses' = [addresses EXCEPT ![i].gtask = t]
           ELSE /\ addresses' = [addresses EXCEPT ![i].gtask = "skipped"]
                /\ UNCHANGED <<pc, address, monitor_type, keys>>
        /\ UNCHANGED <<registered, exchange, sendkeys, start_time,
                       last_transaction_ids, pending, new_transactions, txIdx,
                       transactions, ticks, bootFills, lastFetch, notified,
                       fnIn, fnOut, lock, rows>>

NextHeadless ==
    \/ MainVisit
    \/ \E t \in Monitors : TaskStep(t)

SpecHeadless == InitHeadless /\ [][NextHeadless]_vars

-----------------------------------------------------------------------------
(* The title and the side label of a notification.  The time string and    *)
(* the token are interpolated as they are and stand as one element each.   *)

\* get_formatted_side(side).0 (the colour, the second component, is used by
\* the table only).
GetFormattedSide(side) ==
    LET l == ToLowercase(side)
    IN  CASE
            l = <<"b", "u", "y">> -> <<"B", "u", "y">>
         [] l = <<"s", "e", "l", "l">> -> <<"S", "e", "l", "l">>
         [] l = <<"l", "o", "n", "g">> -> <<"L", "o", "n", "g">>
         [] l = <<"s", "h", "o", "r", "t">> -> <<"S", "h", "o", "r", "t">>
         [] l = <<"d", "e", "p", "o", "s", "i", "t">> -> <<"D", "e", "p", "o", "s", "i", "t">>
         [] l = <<"w", "i", "t", "h", "d", "r", "a", "w">> -> <<"W", "i", "t", "h", "d", "r", "a", "w">>
         [] l = <<"t", "r", "a", "n", "s", "f", "e", "r">> -> <<"T", "r", "a", "n", "s", "f", "e", "r">>
         [] l = <<"s", "e", "n", "d">> -> <<"T", "r", "a", "n", "s", "f", "e", "r">>
         [] l = <<"r", "e", "c", "e", "i", "v", "e">> -> <<"R", "e", "c", "e", "i", "v", "e">>
         [] OTHER -> side

\* The literal the title begins with in monitor.rs, by the match on
\* tx.side.to_lowercase().
TitleHead(side) ==
    LET l == ToLowercase(side)
    IN  CASE
            l \in {<<"b", "u", "y">>, <<"l", "o", "n", "g">>} -> "[LONG] "
         [] l \in {<<"s", "e", "l", "l">>, <<"s", "h", "o", "r", "t">>} -> "[SHORT] "
         [] l \in {<<"d", "e", "p", "o", "s", "i", "t">>} -> "[DEPOSIT] "
         [] l \in {<<"w", "i", "t", "h", "d", "r", "a", "w">>} -> "[WITHDRAW] "
         [] l \in {<<"t", "r", "a", "n", "s", "f", "e", "r">>, <<"s", "e", "n", "d">>} -> "[TRANSFER] "
         [] l \in {<<"r", "e", "c", "e", "i", "v", "e">>} -> "[RECEIVE] "
         [] OTHER -> "[TRANSACTION] "

Builds == {"gui", "headless"}

\* The label of the side in the title and in the body: side_display in
\* monitor.rs, tx.side in monitor_headless.rs.
SideDisplay(build, side) ==
    IF build = "gui" THEN GetFormattedSide(side) ELSE side

\* text: format!("[..] {} {} {}", time_str, tx.token, side_display) in
\* monitor.rs, format!("T:{} {} {}", time_str, tx.token, tx.side) in
\* monitor_headless.rs.
Title(build, time_str, token, side) ==
    IF build = "gui"
    THEN <<TitleHead(side), time_str, " ", token, " ">> \o SideDisplay(build, side)
    ELSE <<"T:", time_str, " ", token, " ">> \o SideDisplay(build, side)

\* The sides a fill is given: the words the code knows, each in lower case,
\* in upper case and capitalised, the B and A of the exchange, and other
\* words.
KnownSides ==
    { <<"b", "u", "y">>,
      <<"s", "e", "l", "l">>,
      <<"l", "o", "n", "g">>,
      <<"s", "h", "o", "r", "t">>,
      <<"d", "e", "p", "o", "s", "i", "t">>,
      <<"w", "i", "t", "h", "d", "r", "a", "w">>,
      <<"t", "r", "a", "n", "s", "f", "e", "r">>,
      <<"s", "e", "n", "d">>,
      <<"r", "e", "c", "e", "i", "v", "e">> }

UpperChar(c) ==
    IF \E k \in 1..Len(LowerLetters) : LowerLetters[k] = c
    THEN UpperLetters[CHOOSE k \in 1..Len(LowerLetters) : LowerLetters[k] = c]
    ELSE c

ToUppercase(a) == [i \in 1..Len(a) |-> UpperChar(a[i])]

Capitalised(a) == [i \in 1..Len(a) |-> IF i = 1 THEN UpperChar(a[i]) ELSE a[i]]

OtherSides ==
    { <<"B">>, <<"A">>, <<"b">>, <<"a">>, <<>>, <<"f", "o", "o">>, <<"F", "o", "o">>,
      <<"l", "o", "n", "g", "s">>, <<"l", "o", "n">>, <<"s", "e", "n", " ", "d">> }

SideUniverse ==
    KnownSides \cup { ToUppercase(w) : w \in KnownSides }
               \cup { Capitalised(w) : w \in KnownSides } \cup OtherSides

NoMessage == [done |-> FALSE, text |-> <<>>, side_display |-> <<>>]

InitFormat ==
    /\ registered = {}
    /\ exchange = [m \in Monitors |-> {}]
    /\ sendkeys = <<>>
    /\ pc = [m \in Monitors |-> "idle"]
    /\ monitor_type = [m \in Monitors |-> NONE]
    /\ keys = [m \in Monitors |-> <<>>]
    /\ start_time = [m \in Monitors |-> 0]
    /\ last_transaction_ids = [m \in Monitors |-> {}]
    /\ pending = [m \in Monitors |-> <<>>]
    /\ new_transactions = [m \in Monitors |-> <<>>]
    /\ txIdx = [m \in Monitors |-> 0]
    /\ transactions = <<>>
    /\ ticks = 0
    /\ bootFills = [m \in Monitors |-> NoFetch]
    /\ lastFetch = [m \in Monitors |-> NoFetch]
    /\ notified = [m \in Monitors |-> <<>>]
    /\ \E build \in Builds, side \in SideUniverse :
          fnIn = [op |-> "format", build |-> build, side |-> side,
                  token |-> "ETH", time_str |-> "2024-01-01 08:00:00"]
    /\ fnOut = NoMessage
    /\ InitNoGui

\* The body of `for tx in &new_transactions` up to the call of
\* send_to_all_keys: side_display and text are built.
FormatMessage ==
    /\ fnIn.op = "format"
    /\ ~fnOut.done
    /\ fnOut' = [done |-> TRUE,
                 text |-> Title(fnIn.build, fnIn.time_str, fnIn.token, fnIn.side),
                 side_display |-> SideDisplay(fnIn.build, fnIn.side)]
    /\ UNCHANGED <<loopVars, fnIn, guiVars>>

NextFormat == FormatMessage

SpecFormat == InitFormat /\ [][NextFormat]_vars

-----------------------------------------------------------------------------
(* Vocabulary of the properties of the title.                              *)

\* The labels of the sides the specification names.
SideLabels ==
    { <<<<"l", "o", "n", "g">>, <<"L", "o", "n", "g">>>>,
      <<<<"s", "h", "o", "r", "t">>, <<"S", "h", "o", "r", "t">>>>,
      <<<<"b", "u", "y">>, <<"B", "u", "y">>>>,
      <<<<"s", "e", "l", "l">>, <<"S", "e", "l", "l">>>>,
      <<<<"d", "e", "p", "o", "s", "i", "t">>, <<"D", "e", "p", "o", "s", "i", "t">>>>,
      <<<<"w", "i", "t", "h", "d", "r", "a", "w">>, <<"W", "i", "t", "h", "d", "r", "a", "w">>>>,
      <<<<"t", "r", "a", "n", "s", "f", "e", "r">>, <<"T", "r", "a", "n", "s", "f", "e", "r">>>>,
      <<<<"s", "e", "n", "d">>, <<"T", "r", "a", "n", "s", "f", "e", "r">>>>,
      <<<<"r", "e", "c", "e", "i", "v", "e">>, <<"R", "e", "c", "e", "i", "v", "e">>>> }

\* The category of a side that has one.
SideTags ==
    { <<<<"l", "o", "n", "g">>, "[LONG]">>,
      <<<<"b", "u", "y">>, "[LONG]">>,
      <<<<"s", "h", "o", "r", "t">>, "[SHORT]">>,
      <<<<"s", "e", "l", "l">>, "[SHORT]">>,
      <<<<"d", "e", "p", "o", "s", "i", "t">>, "[DEPOSIT]">>,
      <<<<"w", "i", "t", "h", "d", "r", "a", "w">>, "[WITHDRAW]">>,
      <<<<"t", "r", "a", "n", "s", "f", "e", "r">>, "[TRANSFER]">>,
      <<<<"s", "e", "n", "d">>, "[TRANSFER]">>,
      <<<<"r", "e", "c", "e", "i", "v", "e">>, "[RECEIVE]">> }

CategoryTags ==
    {"[LONG]", "[SHORT]", "[DEPOSIT]", "[WITHDRAW]", "[TRANSFER]", "[RECEIVE]",
     "[TRANSACTION]"}

Formatted == fnIn.op = "format" /\ fnOut.done

-----------------------------------------------------------------------------
(* Vocabulary of the properties of the lock and of the list.               *)

\* Positions of a task between taking the lock and dropping the guard.
Holding == {"boot_push", "boot_unlock", "extending"}

\* Positions where a task is suspended in an .await: a user_fills or
\* user_state call, the POSTs of send_to_all_keys, the sleep.
Suspended ==
    {"boot_fetch", "fetch", "notify", "sleep", "perp_init", "perp_sleep",
     "perp_fetch"}

\* Two records were built by the same poll iteration of the same task.
SameBatch(a, b) ==
    a.gsrc = "poll" /\ b.gsrc = "poll" /\ a.gby = b.gby /\ a.gtick = b.gtick

\* Task m is inside extend and has not pushed all of new_transactions yet.
MidBatch(m) == pc[m] = "extending" /\ txIdx[m] <= Len(new_transactions[m])

IsPrefix(p, q) == Len(p) <= Len(q) /\ SubSeq(q, 1, Len(p)) = p

-----------------------------------------------------------------------------
\* C11: at most one of the tasks and the GUI holds the lock; a task that
\* holds it is between its lock() and the end of that block, never suspended
\* in a fetch, a POST or the sleep; the list changes only in a step of the
\* task that holds the lock, and a row is drawn only while the GUI holds it.
C11_State ==
    /\ Cardinality(lock) <= 1
    /\ \A m \in Monitors :
          /\ m \in lock <=> pc[m] \in Holding
          /\ pc[m] \in Suspended => m \notin lock

C11_Step ==
    /\ transactions' # transactions =>
          \E m \in Monitors : lock = {m} /\ lock' = {m} /\ pc[m] \in Holding
    /\ rows' # rows => (lock = {GUI} /\ (lock' = {GUI} \/ rows' = <<>>))

C11_LockDiscipline == []C11_State /\ [][C11_Step]_vars

\* A task is inside extend with the lock while the other task waits for the
\* lock at its bootstrap push and a record is already in the list.
C11_Witness ==
    \E m, o \in Monitors :
        /\ m # o
        /\ lock = {m}
        /\ pc[m] = "extending"
        /\ pc[o] = "boot_lock"
        /\ Len(transactions) >= 1

\* C12: the records of one poll iteration of a task lie next to each other
\* in the list, and the GUI never draws a row of an iteration whose records
\* are not all in the list yet; what it has drawn is the end of the list,
\* last record first.
C12_BatchAtomic ==
    /\ \A i, j, k \in 1..Len(transactions) :
          (i < j /\ j < k /\ SameBatch(transactions[i], transactions[k])) =>
              SameBatch(transactions[i], transactions[j])
    /\ \A m \in Monitors :
          MidBatch(m) =>
              \A r \in 1..Len(rows) : ~SameBatch(rows[r], new_transactions[m][1])
    /\ Len(rows) <= Len(transactions)
    /\ \A r \in 1..Len(rows) : rows[r] = transactions[Len(transactions) - r + 1]

\* The GUI has drawn a list in which the two records of one poll iteration
\* lie between records of the other task.
C12_Witness ==
    /\ GUI \in lock
    /\ Len(rows) = Len(transactions)
    /\ \E i \in 1..Len(transactions) - 3 :
          /\ transactions[i].gby # transactions[i + 1].gby
          /\ SameBatch(transactions[i + 1], transactions[i + 2])
          /\ transactions[i + 3].gby # transactions[i + 1].gby

-----------------------------------------------------------------------------
\* C13: a task never ends in a failure: no task is ever in the position
\* where a panic has ended it.
C13_NoFailedState == \A m \in Monitors : pc[m] # "panicked"

-----------------------------------------------------------------------------
(* Vocabulary of the properties of the registry.                           *)

\* The tasks spawned for the address a (letter case aside) and the type ty.
TasksFor(a, ty) ==
    { t \in Monitors :
        /\ pc[t] # "idle"
        /\ ToLowercase(address[t]) = ToLowercase(a)
        /\ monitor_type[t] = ty }

\* Those of them that a panic has not ended.
RunningTasksFor(a, ty) == { t \in TasksFor(a, ty) : pc[t] # "panicked" }

\* C14: every active entry of addresses has a task, and no address and type
\* have more than one running task.  (A task that panicked is counted for
\* its entry here, so that only a second task breaks the statement.)
C14_OneTaskPerActivePair ==
    /\ \A i \in 1..Len(addresses) :
          addresses[i].active =>
              Cardinality(TasksFor(addresses[i].address, addresses[i].monitor_type)) = 1
    /\ \A a \in AddrUniverse, ty \in MonitorTypes :
          Cardinality(RunningTasksFor(a, ty)) <= 1

\* C15: the Stop button changes the active flag of its entry and nothing
\* else, no task's position, locals, records or notifications; and whatever
\* the flags are, a task at its sleep starts the next iteration and a task at
\* its fetch can get the fills.
C15_State ==
    \A t \in Monitors :
        /\ (pc[t] = "sleep" /\ TicksLeft) => ENABLED Sleep(t)
        /\ pc[t] = "fetch" => ENABLED PollFetchOk(t)
        /\ pc[t] = "notify" => ENABLED Notify(t)
        /\ pc[t] = "extend" => ENABLED Extend(t)

C15_Step ==
    \A i \in 1..Len(addresses) :
        (/\ Len(addresses') = Len(addresses)
         /\ addresses[i].active
         /\ ~addresses'[i].active) =>
            /\ UNCHANGED <<pc, monitor_type, keys, start_time, last_transaction_ids,
                           pending, new_transactions, txIdx, transactions,
                           notified, address, sendkeys>>
            /\ addresses'[i].address = addresses[i].address
            /\ addresses'[i].monitor_type = addresses[i].monitor_type
            /\ \A j \in 1..Len(addresses) : j # i => addresses'[j] = addresses[j]

C15_StopOnlyFlipsFlag == []C15_State /\ [][C15_Step]_vars

\* Start was clicked once and then Stop; in an iteration begun after the Stop
\* the task has fetched a new fill, notified it and put its record into the
\* list.
C15_Witness ==
    \E t \in Monitors :
        /\ \A o \in Monitors : o # t => pc[o] = "idle"
        /\ Len(addresses) = 1
        /\ ~addresses[1].active
        /\ addresses[1].gstop >= 0
        /\ pc[t] = "sleep"
        /\ \E r \in 1..Len(transactions) :
              /\ transactions[r].gby = t
              /\ transactions[r].gsrc = "poll"
              /\ transactions[r].gtick > addresses[1].gstop
              /\ CallsFor(t, transactions[r].gid) # {}

\* C16: no step removes, moves or changes a record of the list: the list
\* before the step is a prefix of the list after it.
C16_AppendOnly == [][IsPrefix(transactions, transactions')]_vars

\* The list holds a bootstrap record and, after it, a record of a poll
\* iteration, and the GUI has drawn all of it.
C16_Witness ==
    /\ GUI \in lock
    /\ Len(rows) = Len(transactions)
    /\ Len(transactions) >= 2
    /\ transactions[1].gsrc = "boot"
    /\ transactions[Len(transactions)].gsrc = "poll"

\* C17: once the bootstrap loop is over, the id of every fill of the
\* bootstrap fetch is in last_transaction_ids, and once the classification of
\* a poll fetch is over, the id of every fill of that fetch is.
C17_AllFetchedSeen ==
    \A m \in Monitors :
        /\ (Booted(m) /\ BootFetched(m)) =>
              \A f \in bootFills[m].fills :
                  TransactionId(f) \in last_transaction_ids[m]
        /\ (PollFetched(m) /\ pc[m] \in {"sleep", "notify", "extend"}) =>
              \A f \in lastFetch[m].fills :
                  TransactionId(f) \in last_transaction_ids[m]

-----------------------------------------------------------------------------
(* Vocabulary of the order properties.                                     *)

\* The positions of the snapshot q whose fill is new for a task that had
\* seen the ids of seen and started at start: later than start, id not in
\* seen and not at an earlier position of q.
NewPositions(q, seen, start) ==
    { i \in 1..Len(q) :
        /\ q[i].time > start
        /\ TransactionId(q[i]) \notin seen
        /\ \A j \in 1..i - 1 : TransactionId(q[j]) # TransactionId(q[i]) }

\* The k-th smallest element of the set S of numbers.
Kth(S, k) == CHOOSE i \in S : Cardinality({ j \in S : j < i }) = k - 1

\* The fills of q at those positions, in the order of q.
NewFills(q, seen, start) ==
    LET P == NewPositions(q, seen, start)
    IN  [k \in 1..Cardinality(P) |-> q[Kth(P, k)]]

\* The ids of the records of the poll loop of task m in the list, in order.
PollGids(m) ==
    LET ByPoll(r) == r.gby = m /\ r.gsrc = "poll"
        recs == SelectSeq(transactions, ByPoll)
    IN  [k \in 1..Len(recs) |-> recs[k].gid]

\* The ids task m called sc_send for at position p of its key list, in order.
NotifiedGids(m, p) ==
    LET AtP(c) == c.pos = p
        calls == SelectSeq(notified[m], AtP)
    IN  [k \in 1..Len(calls) |-> calls[k].gid]

Gids(recs) == [k \in 1..Len(recs) |-> recs[k].gid]

\* q ends with e.
EndsWith(q, e) ==
    Len(e) <= Len(q) /\ SubSeq(q, Len(q) - Len(e) + 1, Len(q)) = e

\* C18: the classification of a poll fetch yields the fills later than
\* start_time whose id was neither in last_transaction_ids nor at an earlier
\* position of the snapshot, in the snapshot's order, as records with the
\* fill's time, coin and side; the iteration puts their records into the
\* list in that order and calls sc_send for them in that order at every key.
C18_ClassifyInOrder ==
    \A m \in Monitors :
        PollFetched(m) =>
            LET E == NewFills(lastFetch[m].seq, lastFetch[m].seen, start_time[m])
                ids == [k \in 1..Len(E) |-> TransactionId(E[k])]
            IN  /\ pc[m] \in {"notify", "extend"} =>
                      /\ Len(new_transactions[m]) = Len(E)
                      /\ \A k \in 1..Len(E) :
                            /\ new_transactions[m][k].gid = ids[k]
                            /\ new_transactions[m][k].timestamp = E[k].time
                            /\ new_transactions[m][k].token = E[k].coin
                            /\ new_transactions[m][k].side = E[k].side
                /\ pc[m] = "sleep" =>
                      /\ new_transactions[m] = <<>>
                      /\ EndsWith(PollGids(m), ids)
                /\ \A p \in 1..Len(keys[m]) :
                      /\ pc[m] = "extend" =>
                            NotifiedGids(m, p) = PollGids(m) \o Gids(new_transactions[m])
                      /\ pc[m] = "sleep" => NotifiedGids(m, p) = PollGids(m)

\* A poll fetch returned the later fill before the earlier one, both new: the
\* two records are in the list and the two notifications were sent in the
\* order of the fetch.
C18_Witness ==
    \E m \in Monitors :
        /\ pc[m] = "sleep"
        /\ lastFetch[m].st = "ok"
        /\ lastFetch[m].seq = <<FillNew3, FillNew1>>
        /\ keys[m] # <<>>
        /\ PollGids(m) = <<TransactionId(FillNew3), TransactionId(FillNew1)>>
        /\ NotifiedGids(m, 1) = PollGids(m)

\* C19: the records of the list are in non-decreasing order of timestamp.
C19_NewestLast ==
    \A i, j \in 1..Len(transactions) :
        i < j => transactions[i].timestamp <= transactions[j].timestamp

\* C20: last_transaction_ids and start_time of a task change only in a step
\* of that task (its start, a pass of its bootstrap loop, its classification
\* of a poll fetch), never in a step of another task or of a button, and
\* start_time changes only when the task starts.
C20_Step ==
    \A t \in Monitors :
        /\ (\/ last_transaction_ids'[t] # last_transaction_ids[t]
            \/ start_time'[t] # start_time[t]) =>
               (TaskBegin(t) \/ BootStep(t) \/ PollFetchOk(t))
        /\ start_time'[t] # start_time[t] => pc[t] = "spawned"

C20_DedupStateOwned == [][C20_Step]_vars

\* Two tasks run with different last_transaction_ids after the entry they
\* were started for was stopped and deleted.
C20_Witness ==
    /\ addresses = <<>>
    /\ \A t \in Monitors : pc[t] \in {"sleep", "fetch", "notify", "extend"}
    /\ last_transaction_ids["m1"] # last_transaction_ids["m2"]
    /\ last_transaction_ids["m1"] # {}

-----------------------------------------------------------------------------
\* C21: whatever the task Stuck does, and also if one of its fetches or
\* sends never returns, every other task that has called user_fills in an
\* iteration gets to the end of that iteration, taking the lock when it has
\* records to append, and the GUI takes the lock and drops it again and
\* again.
C21_OthersProgress ==
    /\ \A o \in Monitors \ {Stuck} :
          /\ pc[o] = "fetch" ~> pc[o] = "sleep"
          /\ pc[o] = "extend" ~> o \in lock
          /\ pc[o] = "boot_lock" ~> o \in lock
    /\ []<>(GUI \in lock)
    /\ []<>(GUI \notin lock)

\* Stuck called user_fills in the first iteration started and has not got
\* the answer; the other task has since started the second iteration, found
\* a new fill and appended its record, and the GUI is drawing it.
C21_Witness ==
    /\ pc[Stuck] = "fetch"
    /\ ticks = 2
    /\ GUI \in lock
    /\ \E o \in Monitors \ {Stuck} :
          /\ pc[o] = "sleep"
          /\ \E r \in 1..Len(transactions) :
                /\ transactions[r].gby = o
                /\ transactions[r].gsrc = "poll"
                /\ transactions[r].gtick = 2
          /\ \E k \in 1..Len(rows) : rows[k].gby = o /\ rows[k].gsrc = "poll"

-----------------------------------------------------------------------------
\* C22: the label of a side the specification names, letter case aside, is
\* the capitalised label of that side, and the label of any other side is
\* the side itself.
C22_SideLabel ==
    Formatted =>
        LET l == ToLowercase(fnIn.side)
        IN  IF \E p \in SideLabels : p[1] = l
            THEN \E p \in SideLabels : p[1] = l /\ fnOut.side_display = p[2]
            ELSE fnOut.side_display = fnIn.side

\* C23: a title begins with the bracketed tag of the category of the side,
\* [TRANSACTION] for a side that has no category, followed by a space.
C23_TitleTag ==
    Formatted =>
        LET l == ToLowercase(fnIn.side)
            tag == IF \E p \in SideTags : p[1] = l
                   THEN (CHOOSE p \in SideTags : p[1] = l)[2]
                   ELSE "[TRANSACTION]"
        IN  /\ tag \in CategoryTags
            /\ fnOut.text # <<>>
            /\ fnOut.text[1] = tag \o " "

-----------------------------------------------------------------------------
\* C24: a task of type Perpetuals has no record in the list and has called
\* sc_send for nothing, and none of its steps changes the list or sends.
C24_State ==
    \A m \in Monitors :
        monitor_type[m] = "Perpetuals" =>
            /\ notified[m] = <<>>
            /\ new_transactions[m] = <<>>
            /\ \A r \in 1..Len(transactions) : transactions[r].gby # m

C24_Step ==
    \A m \in Monitors :
        (PerpInit(m) \/ PerpSleep(m) \/ PerpFetch(m)) =>
            UNCHANGED <<transactions, notified>>

C24_PerpetualsStub == []C24_State /\ [][C24_Step]_vars

\* The only task is of type Perpetuals, the exchange holds fills of its
\* address, the task is in its second iteration, and the list is empty.
C24_Witness ==
    \E m \in Monitors :
        /\ registered = {m}
        /\ monitor_type[m] = "Perpetuals"
        /\ exchange[m] # {}
        /\ keys[m] # <<>>
        /\ pc[m] = "perp_fetch"
        /\ ticks >= 2
        /\ transactions = <<>>

-----------------------------------------------------------------------------
(* Vocabulary of the properties of Add Monitor.                            *)

\* The click on Add Monitor pushes an entry.
AddPushes(a, ty) == AddMonitor(a, ty) /\ Len(addresses') = Len(addresses) + 1

\* An entry has the address a, letter case aside.
AddressExists(a) ==
    \E i \in 1..Len(addresses) :
        ToLowercase(addresses[i].address) = ToLowercase(a)

\* An entry has the address a, letter case aside, and the type ty.
PairExists(a, ty) ==
    \E i \in 1..Len(addresses) :
        /\ ToLowercase(addresses[i].address) = ToLowercase(a)
        /\ addresses[i].monitor_type = ty

\* C25 as stated: Add Monitor pushes an entry exactly when no entry has the
\* same type and the same address, letter case aside, and no two entries
\* share such a pair.
C25_AddIffPairNew ==
    /\ \A a \in RegAddrs, ty \in MonitorTypes :
          ENABLED AddPushes(a, ty) <=> ~PairExists(a, ty)
    /\ \A i, j \in 1..Len(addresses) :
          (/\ i # j
           /\ addresses[i].monitor_type = addresses[j].monitor_type) =>
              ToLowercase(addresses[i].address) # ToLowercase(addresses[j].address)

\* C25 amended: Add Monitor pushes an entry exactly when no entry has the
\* same address, letter case aside, whatever its type, and no two entries
\* share an address, letter case aside.
C25_AddIffAddressNew ==
    /\ \A a \in RegAddrs, ty \in MonitorTypes :
          ENABLED AddPushes(a, ty) <=> ~AddressExists(a)
    /\ \A i, j \in 1..Len(addresses) :
          i # j => ToLowercase(addresses[i].address) # ToLowercase(addresses[j].address)

\* The registry holds A as a Transactions monitor and a second address, and
\* a click on Add Monitor for a as a Perpetuals monitor pushes nothing.
C25_Witness ==
    /\ Len(addresses) = 2
    /\ \E i \in 1..Len(addresses) :
          /\ addresses[i].address = <<"A">>
          /\ addresses[i].monitor_type = "Transactions"
    /\ ~PairExists(<<"a">>, "Perpetuals")
    /\ ~ENABLED AddPushes(<<"a">>, "Perpetuals")
    /\ ENABLED AddPushes(<<"c">>, "Perpetuals")

-----------------------------------------------------------------------------
\* C26: while a task sends the notifications of an iteration none of the
\* iteration's records is in the list; when it comes to extend, sc_send has
\* been called once for every new fill at every non-empty key, whatever the
\* calls returned; and when the iteration is over every fill classified new
\* has its record in the list.
C26_NotifyThenAppend ==
    \A m \in Monitors :
        /\ pc[m] \in {"notify", "extend"} =>
              \A k \in 1..Len(new_transactions[m]) :
                  LogRecords(m, new_transactions[m][k].gid, "poll") = {}
        /\ pc[m] = "extend" =>
              \A k \in 1..Len(new_transactions[m]) :
                  \A p \in 1..Len(keys[m]) :
                      keys[m][p] # <<>> =>
                          Cardinality(Calls(m, new_transactions[m][k].gid, p)) = 1
        /\ (PollFetched(m) /\ pc[m] = "sleep") =>
              LET E == NewFills(lastFetch[m].seq, lastFetch[m].seen, start_time[m])
              IN  \A k \in 1..Len(E) :
                      Cardinality(LogRecords(m, TransactionId(E[k]), "poll")) = 1

\* An iteration is over in which a fill was new, every sc_send call for it
\* returned an error, and its record is in the list.
C26_Witness ==
    \E m \in Monitors :
        /\ pc[m] = "sleep"
        /\ PollFetched(m)
        /\ \E r \in 1..Len(transactions) :
              /\ transactions[r].gby = m
              /\ transactions[r].gsrc = "poll"
              /\ CallsFor(m, transactions[r].gid) # {}
              /\ \A i \in CallsFor(m, transactions[r].gid) :
                    notified[m][i].result = "transport_error"

-----------------------------------------------------------------------------
\* The keys of the sc_send calls task t made for the fill id, in order.
KeysCalled(t, id) ==
    LET ForId(c) == c.gid = id
        calls == SelectSeq(notified[t], ForId)
    IN  [k \in 1..Len(calls) |-> calls[k].key]

\* C27: a task is spawned with the key list of the registry as it is at the
\* click on Start; its list never changes afterwards, whatever keys are added
\* or removed; and for every fill it notifies it calls sc_send for the keys
\* of its own list, in the order of that list.
C27_State ==
    \A t \in Monitors :
        \A c \in 1..Len(notified[t]) :
            KeysCalled(t, notified[t][c].gid) = keys[t]

C27_Step ==
    \A t \in Monitors :
        /\ (pc[t] = "idle" /\ pc'[t] # "idle") => keys'[t] = sendkeys
        /\ pc[t] # "idle" => keys'[t] = keys[t]

C27_KeysAsAtStart == []C27_State /\ [][C27_Step]_vars

\* A task started with two keys has called sc_send for a fill with these
\* two keys, in their order, when the registry held no key any more.
C27_Witness ==
    \E t \in Monitors :
        /\ Len(keys[t]) = 2
        /\ keys[t][1] # keys[t][2]
        /\ Len(notified[t]) = 2
        /\ notified[t][1].gkeys = <<>>
        /\ notified[t][1].key = keys[t][1]
        /\ notified[t][2].key = keys[t][2]

-----------------------------------------------------------------------------
\* The type a task is to run with for the monitor_type string of its entry.
TypeOfEntry(str) == IF str = "perpetuals" THEN "Perpetuals" ELSE "Transactions"

\* C28: an entry main has come to has a task exactly if it is active; the
\* task of an entry runs with the entry's address, with the key list of the
\* configuration and with the type Perpetuals for "perpetuals" and
\* Transactions for every other string; no two entries have the same task
\* and every task is the task of an entry.
C28_OneTaskPerActiveEntry ==
    /\ \A i \in 1..Len(addresses) :
          LET e == addresses[i]
          IN  /\ e.gtask # "unvisited" => (e.active <=> e.gtask \in Monitors)
              /\ e.gtask \in Monitors =>
                    /\ pc[e.gtask] # "idle"
                    /\ address[e.gtask] = e.address
                    /\ monitor_type[e.gtask] = TypeOfEntry(e.monitor_type)
                    /\ keys[e.gtask] = sendkeys
    /\ \A i, j \in 1..Len(addresses) :
          (i # j /\ addresses[i].gtask \in Monitors) =>
              addresses[i].gtask # addresses[j].gtask
    /\ \A t \in Monitors :
          pc[t] # "idle" =>
              Cardinality({ i \in 1..Len(addresses) : addresses[i].gtask = t }) = 1

\* main has gone through a configuration of an inactive entry and an active
\* entry of an unknown type; one task runs, as a Transactions monitor, and
\* has appended a record.
C28_Witness ==
    /\ Len(addresses) = 2
    /\ ~addresses[1].active
    /\ addresses[1].gtask = "skipped"
    /\ addresses[2].active
    /\ addresses[2].monitor_type = "other"
    /\ addresses[2].gtask = "m1"
    /\ monitor_type["m1"] = "Transactions"
    /\ pc["m1"] = "sleep"
    /\ pc["m2"] = "idle"
    /\ \E r \in 1..Len(transactions) : transactions[r].gby = "m1"

====
